---- MODULE Spec2Model ----
(***************************************************************************)
(* The bytecode codec of ohmu's typed intermediate language (til):         *)
(*   - ByteStreamWriterBase / ByteStreamReaderBase, the buffered byte      *)
(*     streams with atom boundaries and variable-byte integers;            *)
(*   - BytecodeWriter, the traversal that serializes an SExpr;             *)
(*   - BytecodeReader, the stack machine that rebuilds it.                 *)
(*                                                                         *)
(* src/src/til/Bytecode.h declares the classes and defines their inline    *)
(* members; the out-of-line members (Bytecode.cpp) are modelled from the   *)
(* specification of the stream format and of the driver.                   *)
(*                                                                         *)
(* Unsigned machine words are sets of bit positions (bit b is set iff      *)
(* b is in the set), so that 32- and 64-bit values keep their width; a     *)
(* signed integer is its sign and the word of its magnitude.               *)
(* Byte arrays are [len, nz]: nz maps the 0-based indices of the non-zero  *)
(* bytes to their values; every other byte below len is 0.                 *)
(***************************************************************************)
EXTENDS Integers, Sequences, FiniteSets, TLC

VARIABLES
  pc,        \* position of the client: which call is running
  input,     \* what the client serializes, and how the bytes are damaged
  todo,      \* the writer's remaining work (atoms still to be emitted)
  rtodo,     \* the stream reader's remaining field reads (stream client)
  Writer,    \* ByteStreamWriterBase: Pos, Buffer
  Sink,      \* BytecodeStringWriter::Buffer, the bytes writeData received
  Reader,    \* InMemoryReader / ByteStreamReaderBase
  BR,        \* BytecodeReader
  result,    \* what BytecodeReader::read() returned
  hist       \* history: stream offsets and values, for stating the claims

vars == <<pc, input, todo, rtodo, Writer, Sink, Reader, BR, result, hist>>

(***************************************************************************)
(* Bounds of the model.                                                    *)
(***************************************************************************)
MaxFill == 16      \* most full-size filler atoms put before a probe atom
MaxTrunc == 2      \* most bytes cut from the end of a stream

(***************************************************************************)
(* Machine words.                                                          *)
(***************************************************************************)
Pow2(n) == 2 ^ n

\* The number whose set bits are S (S within 0..30).
RECURSIVE Val(_)
Val(S) == IF S = {} THEN 0
          ELSE LET b == CHOOSE x \in S : TRUE IN Pow2(b) + Val(S \ {b})

\* The word of a natural number below 2^31.
Word(n) == {b \in 0..30 : (n \div Pow2(b)) % 2 = 1}

Shr(V, k) == {b - k : b \in {x \in V : x >= k}}
Shl(V, k) == {b + k : b \in V}
Low(V, n) == {b \in V : b < n}

\* Byte k (0 = least significant) of word V.
ByteOf(V, k) == Val(Shr(Low(V, 8 * k + 8), 8 * k))

\* A signed integer is its sign and the word of its magnitude.
SInt(v) == [neg |-> v < 0, abs |-> Word(IF v < 0 THEN 0 - v ELSE v)]

\* V + 1 in w bits.
Inc(V, w) ==
  LET Z == (0..(w - 1)) \ V IN
  IF Z = {} THEN {}
  ELSE LET z == CHOOSE x \in Z : \A y \in Z : x <= y
       IN {b \in V : b > z} \cup {z}

\* Two's complement negation in w bits.
Negate(V, w) == Inc((0..(w - 1)) \ Low(V, w), w)

\* static_cast between a signed integer of width w and its unsigned word.
ToUnsigned(v, w) == IF v.neg THEN Negate(v.abs, w) ELSE Low(v.abs, w)

ToSigned(V, w) ==
  LET U == Low(V, w) IN
  IF (w - 1) \in U THEN [neg |-> TRUE, abs |-> Negate(U, w)]
  ELSE [neg |-> FALSE, abs |-> U]

(***************************************************************************)
(* Byte arrays.                                                            *)
(***************************************************************************)
EmptyArr == [len |-> 0, nz |-> <<>>]

Get(nz, i) == IF i \in DOMAIN nz THEN nz[i] ELSE 0

Put(nz, i, b) ==
  LET rest == [j \in DOMAIN nz \ {i} |-> nz[j]]
  IN IF b = 0 THEN rest ELSE (i :> b) @@ rest

\* The n bytes of nz from index from on, as an array.
Slice(nz, from, n) ==
  [len |-> n,
   nz  |-> [j \in {i - from : i \in {x \in DOMAIN nz : x >= from /\ x < from + n}}
              |-> nz[j + from]]]

\* nz with the bytes of array a copied to index at on.
Blit(nz, at, a) ==
  [i \in {j + at : j \in DOMAIN a.nz} |-> a.nz[i - at]]
    @@ [i \in {j \in DOMAIN nz : j < at \/ j >= at + a.len} |-> nz[i]]

Concat(a, b) == [len |-> a.len + b.len, nz |-> Blit(a.nz, a.len, b)]

\* The array of a sequence of bytes.
ArrOf(s) == [len |-> Len(s),
             nz  |-> [j \in {i - 1 : i \in {x \in 1..Len(s) : s[x] # 0}} |-> s[j + 1]]]

(***************************************************************************)
(* BytecodeBase: atom size, pseudo-opcodes, field widths.                  *)
(***************************************************************************)
MaxAtomSize == 4096

BufferSize == MaxAtomSize * 16

PSOP_Null == 0
PSOP_WeakInstrRef == 1
PSOP_BBArgument == 2
PSOP_BBInstruction == 3
PSOP_EnterScope == 4
PSOP_ExitScope == 5
PSOP_EnterBlock == 6
PSOP_EnterCFG == 7
PSOP_Annotation == 8
PSOP_Last == 9

\* getBitSizeImpl, by the kind of flag.
getBitSize(T) ==
  CASE T = "PseudoOpcode" -> 6
    [] T = "TIL_Opcode" -> 6
    [] T = "TIL_AnnKind" -> 8
    [] T = "TIL_UnaryOpcode" -> 6
    [] T = "TIL_BinaryOpcode" -> 6
    [] T = "TIL_CastOpcode" -> 6
    [] T = "VariableKind" -> 2
    [] T = "CallingConvention" -> 4
    [] T = "ApplyKind" -> 2
    [] T = "AllocKind" -> 2

(***************************************************************************)
(* ByteStreamWriterBase.  A writer is [Pos, Buffer]; the sink is passed    *)
(* along with it as ws = [W, S].                                           *)
(***************************************************************************)
NewWriter == [Pos |-> 0, Buffer |-> <<>>]

\* length() that always reports an empty buffer.
wLength_Whole(W) == BufferSize

wLength(W) == BufferSize - W.Pos

\* BytecodeStringWriter::writeData: append to the string stream.
\* writeData that replaces what the sink holds.
writeData_Replace(S, Buf, Size) == Slice(Buf, 0, Size)

writeData(S, Buf, Size) == Concat(S, Slice(Buf, 0, Size))

flush(ws) ==
  [W |-> [ws.W EXCEPT !.Pos = 0],
   S |-> IF ws.W.Pos > 0 THEN writeData(ws.S, ws.W.Buffer, ws.W.Pos) ELSE ws.S]

wEndAtom(ws) == IF wLength(ws.W) < MaxAtomSize THEN flush(ws) ELSE ws

\* Buffer[Pos++] = b
PutByte(W, b) == [Pos |-> W.Pos + 1, Buffer |-> Put(W.Buffer, W.Pos, b)]

writeBytes(W, Data) ==
  [Pos |-> W.Pos + Data.len, Buffer |-> Blit(W.Buffer, W.Pos, Data)]

\* The low Nbits bits of V, least significant byte first.
RECURSIVE writeBitsFrom(_, _, _, _)
writeBitsFrom(W, V, Nbits, k) ==
  IF 8 * k >= Nbits THEN W
  ELSE writeBitsFrom(PutByte(W, ByteOf(Low(V, Nbits), k)), V, Nbits, k + 1)

writeBits32(W, V, Nbits) == writeBitsFrom(W, Low(V, 32), Nbits, 0)

writeBits64(W, V, Nbits) == writeBitsFrom(W, Low(V, 64), Nbits, 0)

\* One group: the continuation flag, then the 7 bits.
VbrByte(V) == (IF Shr(V, 7) # {} THEN 1 ELSE 0) + 2 * Val(Low(V, 7))

RECURSIVE writeVbr(_, _)
writeVbr(W, V) ==
  IF Shr(V, 7) = {} THEN PutByte(W, VbrByte(V))
  ELSE writeVbr(PutByte(W, VbrByte(V)), Shr(V, 7))

writeUInt32_Vbr(W, V) == writeVbr(W, Low(V, 32))

writeUInt64_Vbr(W, V) == writeVbr(W, Low(V, 64))

writeBool(W, V) == writeBits32(W, IF V THEN {0} ELSE {}, 1)

writeUInt8(W, V) == writeBits32(W, Low(V, 8), 8)

writeUInt16(W, V) == writeUInt32_Vbr(W, Low(V, 16))

\* writeUInt32 at a fixed width of four bytes.
writeUInt32_Fixed(W, V) == writeBits32(W, Low(V, 32), 32)

writeUInt32(W, V) == writeUInt32_Vbr(W, Low(V, 32))

writeUInt64(W, V) == writeUInt64_Vbr(W, Low(V, 64))

writeInt8(W, v) == writeBits32(W, ToUnsigned(v, 8), 8)

\* writeInt16 with the width of writeInt8.
writeInt16_Short(W, v) == writeBits32(W, ToUnsigned(v, 16), 8)

writeInt16(W, v) == writeBits32(W, ToUnsigned(v, 16), 16)

writeInt32(W, v) == writeBits32(W, ToUnsigned(v, 32), 32)

writeInt64(W, v) == writeBits64(W, ToUnsigned(v, 64), 64)

\* The length, then the bytes; no terminator.
writeString(W, S) == writeBytes(writeUInt32_Vbr(W, Word(Len(S))), ArrOf(S))

(***************************************************************************)
(* ByteStreamReaderBase and InMemoryReader.  A reader is                   *)
(* [BufferLen, Pos, Eof, Error, Buffer, SourcePos, SourceBuffer].  A read  *)
(* returns [R, v]: the reader after it and the value.                      *)
(***************************************************************************)
\* length() that leaves Pos out.
rLength_Whole(R) == R.BufferLen

rLength(R) == R.BufferLen - R.Pos

totalLength(R) == R.SourceBuffer.len - R.SourcePos

\* readData that copies without advancing SourcePos.
readData_NoAdvance(R, At, Sz) ==
  LET n == IF Sz > totalLength(R) THEN totalLength(R) ELSE Sz IN
  [R |-> [R EXCEPT !.Buffer = Blit(R.Buffer, At, Slice(R.SourceBuffer.nz, R.SourcePos, n))],
   v |-> n]

\* InMemoryReader::readData into Buffer + At; returns the reader and the count.
readData(R, At, Sz) ==
  LET n == IF Sz > totalLength(R) THEN totalLength(R) ELSE Sz IN
  [R |-> [R EXCEPT !.Buffer = Blit(R.Buffer, At, Slice(R.SourceBuffer.nz, R.SourcePos, n)),
                   !.SourcePos = R.SourcePos + n],
   v |-> n]

refill(R) ==
  IF R.Eof THEN R
  ELSE
    LET len == rLength(R)
        M == IF R.Pos > 0
             THEN [R EXCEPT !.Buffer = Blit(R.Buffer, 0, Slice(R.Buffer, R.Pos, len)),
                            !.Pos = 0, !.BufferLen = len]
             ELSE R
        rd == readData(M, M.BufferLen, BufferSize - M.BufferLen)
        N == [rd.R EXCEPT !.BufferLen = M.BufferLen + rd.v]
    IN [N EXCEPT !.Eof = N.BufferLen < BufferSize]

\* InMemoryReader(Buf, Sz): the base constructor, then refill().
NewReader(Src) ==
  refill([BufferLen |-> 0, Pos |-> 0, Eof |-> FALSE, Error |-> FALSE,
          Buffer |-> <<>>, SourcePos |-> 0, SourceBuffer |-> Src])

rEndAtom(R) == IF rLength(R) < MaxAtomSize THEN refill(R) ELSE R

empty(R) == R.Eof /\ rLength(R) <= 0

\* Buffer[Pos++]; past the end of the data it sets Error and yields 0.
GetByte(R) ==
  IF rLength(R) <= 0 THEN [R |-> [R EXCEPT !.Error = TRUE], v |-> 0]
  ELSE [R |-> [R EXCEPT !.Pos = R.Pos + 1], v |-> Get(R.Buffer, R.Pos)]

readBytes(R, Size) ==
  IF rLength(R) < Size
  THEN [R |-> [R EXCEPT !.Error = TRUE, !.Pos = R.BufferLen],
        v |-> Slice(R.Buffer, R.Pos, Size)]
  ELSE [R |-> [R EXCEPT !.Pos = R.Pos + Size], v |-> Slice(R.Buffer, R.Pos, Size)]

RECURSIVE readBitsFrom(_, _, _, _)
readBitsFrom(R, V, Nbits, k) ==
  IF 8 * k >= Nbits THEN [R |-> R, v |-> Low(V, Nbits)]
  ELSE LET g == GetByte(R)
       IN readBitsFrom(g.R, V \cup Shl(Word(g.v), 8 * k), Nbits, k + 1)

readBits32(R, Nbits) == readBitsFrom(R, {}, Nbits, 0)

readBits64(R, Nbits) == readBitsFrom(R, {}, Nbits, 0)

\* At most MaxGroups groups; a flag still set on the last one is an error.
RECURSIVE readVbr(_, _, _, _, _)
readVbr(R, V, k, MaxGroups, Width) ==
  LET g == GetByte(R)
      V2 == V \cup Low(Shl(Word(g.v \div 2), 7 * k), Width)
  IN IF g.R.Error THEN [R |-> g.R, v |-> V2]
     ELSE IF g.v % 2 = 0 THEN [R |-> g.R, v |-> V2]
     ELSE IF k + 1 >= MaxGroups THEN [R |-> [g.R EXCEPT !.Error = TRUE], v |-> V2]
     ELSE readVbr(g.R, V2, k + 1, MaxGroups, Width)

readUInt32_Vbr(R) == readVbr(R, {}, 0, 5, 32)

readUInt64_Vbr(R) == readVbr(R, {}, 0, 10, 64)

readBool(R) == LET x == readBits32(R, 1) IN [R |-> x.R, v |-> x.v # {}]

readUInt8(R) == LET x == readBits32(R, 8) IN [R |-> x.R, v |-> Low(x.v, 8)]

readUInt16(R) == LET x == readUInt32_Vbr(R) IN [R |-> x.R, v |-> Low(x.v, 16)]

\* readUInt32 through the decoder of 64-bit values.
readUInt32_Wide(R) == LET x == readUInt64_Vbr(R) IN [R |-> x.R, v |-> Low(x.v, 32)]

readUInt32(R) == readUInt32_Vbr(R)

\* readUInt64 through the 32-bit decoder.
readUInt64_Narrow(R) == readUInt32_Vbr(R)

readUInt64(R) == readUInt64_Vbr(R)

readInt8(R) == LET x == readBits32(R, 8) IN [R |-> x.R, v |-> ToSigned(x.v, 8)]

readInt16(R) == LET x == readBits32(R, 16) IN [R |-> x.R, v |-> ToSigned(x.v, 16)]

readInt32(R) == LET x == readBits32(R, 32) IN [R |-> x.R, v |-> ToSigned(x.v, 32)]

readInt64(R) == LET x == readBits64(R, 64) IN [R |-> x.R, v |-> ToSigned(x.v, 64)]

\* The bytes of an array, as a sequence.
SeqOf(a) == [i \in 1..a.len |-> Get(a.nz, i - 1)]

readString(R) ==
  LET n == readUInt32_Vbr(R)
      sz == IF Shr(n.v, 12) = {} THEN Val(n.v) ELSE MaxAtomSize
      b == readBytes(n.R, sz)
  IN [R |-> b.R, v |-> SeqOf(b.v)]

(***************************************************************************)
(* Typed fields: an atom is a sequence of fields [t, n, v], the type of    *)
(* the write, its width where the type leaves it open, and the value.      *)
(***************************************************************************)
Fld(t, n, v) == [t |-> t, n |-> n, v |-> v]

writeField(W, f) ==
  CASE f.t = "Bool" -> writeBool(W, f.v)
    [] f.t = "UInt8" -> writeUInt8(W, f.v)
    [] f.t = "UInt16" -> writeUInt16(W, f.v)
    [] f.t = "UInt32" -> writeUInt32(W, f.v)
    [] f.t = "UInt64" -> writeUInt64(W, f.v)
    [] f.t = "Int8" -> writeInt8(W, f.v)
    [] f.t = "Int16" -> writeInt16(W, f.v)
    [] f.t = "Int32" -> writeInt32(W, f.v)
    [] f.t = "Int64" -> writeInt64(W, f.v)
    [] f.t = "Bits32" -> writeBits32(W, f.v, f.n)
    [] f.t = "Bits64" -> writeBits64(W, f.v, f.n)
    [] f.t = "String" -> writeString(W, f.v)
    [] f.t = "Bytes" -> writeBytes(W, f.v)
    [] f.t \in {"Groups32", "Groups64"} -> writeBytes(W, [len |-> f.n, nz |-> [i \in 0..(f.n - 1) |-> 255]])
    [] f.t = "Ptr" -> W

readField(R, f) ==
  CASE f.t = "Bool" -> readBool(R)
    [] f.t = "UInt8" -> readUInt8(R)
    [] f.t = "UInt16" -> readUInt16(R)
    [] f.t = "UInt32" -> readUInt32(R)
    [] f.t = "UInt64" -> readUInt64(R)
    [] f.t = "Int8" -> readInt8(R)
    [] f.t = "Int16" -> readInt16(R)
    [] f.t = "Int32" -> readInt32(R)
    [] f.t = "Int64" -> readInt64(R)
    [] f.t = "Bits32" -> readBits32(R, f.n)
    [] f.t = "Bits64" -> readBits64(R, f.n)
    [] f.t = "String" -> readString(R)
    [] f.t = "Bytes" -> readBytes(R, f.n)
    [] f.t = "Groups32" -> readUInt32(R)
    [] f.t = "Groups64" -> readUInt64(R)

(***************************************************************************)
(* The IR, as far as the codec reads it.  A node is a record with its      *)
(* opcode name in op and its annotations in anns.  An operand that is a    *)
(* weak reference to an instruction of the enclosing CFG is                *)
(* [op |-> "InstrRef", id |-> instrID]; a null operand is NullNode.        *)
(***************************************************************************)
NullNode == [op |-> "Null"]

InstrRef(i) == [op |-> "InstrRef", id |-> i]

BT(b, vs) == [Base |-> b, VectSize |-> vs]

\* The value of a literal, held under the name of its C++ type class.
LitVal(b, v) ==
  CASE b = "Bool" -> [bool |-> v]
    [] b \in {"UInt8", "UInt16", "UInt32", "UInt64"} -> [unsigned |-> v]
    [] b \in {"Int8", "Int16", "Int32", "Int64"} -> [signed |-> v]
    [] b = "String" -> [string |-> v]
    [] OTHER -> [pointer |-> v]

RawVal(b, lv) ==
  CASE b = "Bool" -> lv.bool
    [] b \in {"UInt8", "UInt16", "UInt32", "UInt64"} -> lv.unsigned
    [] b \in {"Int8", "Int16", "Int32", "Int64"} -> lv.signed
    [] b = "String" -> lv.string
    [] OTHER -> lv.pointer

Literal(bt, v) ==
  [op |-> "Literal", bt |-> bt, v |-> LitVal(bt.Base, v), anns |-> <<>>]

VarDecl(k, name, def) ==
  [op |-> "VarDecl", kind |-> k, name |-> name, def |-> def, anns |-> <<>>]

Function(vd, body) == [op |-> "Function", vd |-> vd, body |-> body, anns |-> <<>>]

Variable(name) == [op |-> "Variable", decl |-> name, anns |-> <<>>]

UnaryOp(uop, e0) == [op |-> "UnaryOp", uop |-> uop, e0 |-> e0, anns |-> <<>>]

BinaryOp(bop, e0, e1) ==
  [op |-> "BinaryOp", bop |-> bop, e0 |-> e0, e1 |-> e1, anns |-> <<>>]

Phi == [op |-> "Phi", anns |-> <<>>]

Goto(target, args) == [op |-> "Goto", target |-> target, args |-> args, anns |-> <<>>]

Branch(c, t, e) ==
  [op |-> "Branch", cond |-> c, thenB |-> t, elseB |-> e, anns |-> <<>>]

Return(e) == [op |-> "Return", e0 |-> e, anns |-> <<>>]

BasicBlock(args, instrs, term) ==
  [op |-> "BasicBlock", args |-> args, instrs |-> instrs, term |-> term, anns |-> <<>>]

SCFG(blocks) == [op |-> "SCFG", blocks |-> blocks, anns |-> <<>>]

With(e, anns) == [e EXCEPT !.anns = anns]

InstrNameAnnot(name) == [kind |-> "InstrNameAnnot", name |-> name]

SourceLocAnnot(p) == [kind |-> "SourceLocAnnot", pos |-> p]

PreconditionAnnot(c) == [kind |-> "PreconditionAnnot", cond |-> c]

\* TIL_Opcode, in the order of the per-opcode readers of BytecodeReader.
OpNames ==
  << "VarDecl", "Function", "Code", "Field", "Slot", "Record", "Array",
     "ScalarType", "SCFG", "BasicBlock", "Literal", "Variable", "Apply",
     "Project", "Call", "Alloc", "Load", "Store", "ArrayIndex", "ArrayAdd",
     "UnaryOp", "BinaryOp", "Cast", "Phi", "Goto", "Branch", "Switch", "Return",
     "Future", "Undefined", "Wildcard", "Identifier", "Let", "IfThenElse" >>

COP(name) == (CHOOSE i \in 1..Len(OpNames) : OpNames[i] = name) - 1

\* TIL_AnnKind, in the order of the annotation classes.
AnnNames == << "InstrNameAnnot", "SourceLocAnnot", "PreconditionAnnot", "TestTripletAnnot" >>

ANNKIND(name) == (CHOOSE i \in 1..Len(AnnNames) : AnnNames[i] = name) - 1

\* BaseType::asUInt8: the base and size, and bit 7 for a vector type.
BaseNames ==
  << "Bool", "Int8", "Int16", "Int32", "Int64", "UInt8", "UInt16", "UInt32",
     "UInt64", "String", "Pointer" >>

BaseCode(b) == CHOOSE i \in 1..Len(BaseNames) : BaseNames[i] = b

asUInt8(bt) == BaseCode(bt.Base) + (IF bt.VectSize >= 1 THEN 128 ELSE 0)

(***************************************************************************)
(* BytecodeWriter.  The traversal yields the atoms it writes, in order;    *)
(* an atom is the sequence of fields written before one endAtom.           *)
(***************************************************************************)
writeFlag(T, Flag) == Fld("Bits32", getBitSize(T), Word(Flag))

writePseudoOpcode(Psop) == writeFlag("PseudoOpcode", Psop)

\* writeOpcode without the offset PSOP_Last.
writeOpcode_NoOffset(Op) == writePseudoOpcode(Op)

writeOpcode(Op) == writePseudoOpcode(PSOP_Last + Op)

writeBaseType(bt) ==
  <<Fld("UInt8", 8, Word(asUInt8(bt)))>>
  \o (IF bt.VectSize >= 1 THEN <<Fld("UInt8", 8, Word(bt.VectSize))>> ELSE <<>>)

\* writeLitVal, by the type of the value; a pointer writes nothing and
\* asserts that it is null.
writeLitVal(bt, v) ==
  IF bt.Base = "Pointer" THEN <<Fld("Ptr", 0, RawVal(bt.Base, v))>>
  ELSE <<Fld(bt.Base, 0, RawVal(bt.Base, v))>>

reduceLiteralT(E) ==
  <<writeOpcode(COP("Literal"))>> \o writeBaseType(E.bt) \o writeLitVal(E.bt, E.v)

\* A->serialize(B): what the annotation writes after its kind.
serialize(A) ==
  CASE A.kind = "InstrNameAnnot" -> <<Fld("String", 0, A.name)>>
    [] A.kind = "SourceLocAnnot" -> <<Fld("UInt64", 64, A.pos)>>
    [] A.kind = "PreconditionAnnot" -> <<>>

reduceAnnotationT(A) ==
  <<writePseudoOpcode(PSOP_Annotation), writeFlag("TIL_AnnKind", ANNKIND(A.kind))>>
  \o serialize(A)

\* The index a variable is written with: the innermost open scope of that
\* name, counted from 1; 0 when there is none.
VarIndex(sc, name) ==
  IF \E i \in 1..Len(sc) : sc[i] = name
  THEN CHOOSE i \in 1..Len(sc) : sc[i] = name /\ \A j \in (i + 1)..Len(sc) : sc[j] # name
  ELSE 0

\* The number of arguments and instructions of a sequence of blocks.
RECURSIVE NumInstrs(_)
NumInstrs(bs) ==
  IF bs = <<>> THEN 0
  ELSE Len(Head(bs).args) + Len(Head(bs).instrs) + NumInstrs(Tail(bs))

\* reduceX: the atom of node E itself.
reduce(E, sc) ==
  CASE E.op = "Literal" -> reduceLiteralT(E)
    [] E.op = "VarDecl" ->
         <<writeOpcode(COP("VarDecl")), writeFlag("VariableKind", E.kind),
           Fld("String", 0, E.name)>>
    [] E.op = "Function" -> <<writeOpcode(COP("Function"))>>
    [] E.op = "Variable" ->
         <<writeOpcode(COP("Variable")), Fld("UInt32", 32, Word(VarIndex(sc, E.decl)))>>
    [] E.op = "UnaryOp" ->
         <<writeOpcode(COP("UnaryOp")), writeFlag("TIL_UnaryOpcode", E.uop)>>
    [] E.op = "BinaryOp" ->
         <<writeOpcode(COP("BinaryOp")), writeFlag("TIL_BinaryOpcode", E.bop)>>
    [] E.op = "Phi" -> <<writeOpcode(COP("Phi"))>>
    [] E.op = "Goto" ->
         <<writeOpcode(COP("Goto")), Fld("UInt32", 32, Word(Len(E.args))),
           Fld("UInt32", 32, Word(E.target))>>
    [] E.op = "Branch" ->
         <<writeOpcode(COP("Branch")), Fld("UInt32", 32, Word(E.thenB)),
           Fld("UInt32", 32, Word(E.elseB))>>
    [] E.op = "Return" -> <<writeOpcode(COP("Return"))>>
    [] E.op = "BasicBlock" -> <<writeOpcode(COP("BasicBlock"))>>
    [] E.op = "SCFG" -> <<writeOpcode(COP("SCFG"))>>

reduceNull == <<writePseudoOpcode(PSOP_Null)>>

reduceWeak(E) == <<writePseudoOpcode(PSOP_WeakInstrRef), Fld("UInt32", 32, Word(E.id))>>

reduceBBArgument == <<writePseudoOpcode(PSOP_BBArgument)>>

reduceBBInstruction == <<writePseudoOpcode(PSOP_BBInstruction)>>

enterScope == <<writePseudoOpcode(PSOP_EnterScope)>>

exitScope == <<writePseudoOpcode(PSOP_ExitScope)>>

enterCFG(Cfg) ==
  <<writePseudoOpcode(PSOP_EnterCFG), Fld("UInt32", 32, Word(Len(Cfg.blocks))),
    Fld("UInt32", 32, Word(NumInstrs(Cfg.blocks)))>>

enterBlock(bid, B) ==
  <<writePseudoOpcode(PSOP_EnterBlock), Fld("UInt32", 32, Word(bid)),
    Fld("UInt32", 32, Word(Len(B.args))), Fld("UInt32", 32, Word(Len(B.instrs)))>>

RECURSIVE traverse(_, _), traverseChildren(_, _), traverseArg(_, _),
          traverseAnnotation(_, _), traverseAnnotations(_, _),
          traverseSeq(_, _, _), traverseBlocks(_, _, _)

\* PreconditionAnnot::traverse with the annotation ahead of its condition.
traverseAnnotation_CondAfter(A, sc) ==
  IF A.kind = "PreconditionAnnot"
  THEN <<reduceAnnotationT(A)>> \o traverseArg(A.cond, sc)
  ELSE <<reduceAnnotationT(A)>>

\* PreconditionAnnot::traverse serializes the condition, then the annotation;
\* the other kinds have no sub-expression.
traverseAnnotation(A, sc) ==
  IF A.kind = "PreconditionAnnot"
  THEN traverseArg(A.cond, sc) \o <<reduceAnnotationT(A)>>
  ELSE <<reduceAnnotationT(A)>>

\* The loop of BytecodeWriter::traverse over E->annotations().
traverseAnnotations(As, sc) ==
  IF As = <<>> THEN <<>>
  ELSE traverseAnnotation(Head(As), sc) \o traverseAnnotations(Tail(As), sc)

\* traverse with the annotation loop ahead of the node.
traverse_AnnotationsFirst(E, sc) ==
  traverseAnnotations(E.anns, sc) \o traverseChildren(E, sc) \o <<reduce(E, sc)>>

\* BytecodeWriter::traverse: the node (its operands, then its own atom),
\* then one atom per annotation.
traverse(E, sc) ==
  traverseChildren(E, sc) \o <<reduce(E, sc)>> \o traverseAnnotations(E.anns, sc)

\* traverseArg: a null operand and a weak reference are reduced in place.
traverseArg(E, sc) ==
  CASE E.op = "Null" -> <<reduceNull>>
    [] E.op = "InstrRef" -> <<reduceWeak(E)>>
    [] OTHER -> traverse(E, sc)

\* Each element of es, followed by the marker atoms in after.
traverseSeq(es, sc, after) ==
  IF es = <<>> THEN <<>>
  ELSE traverseArg(Head(es), sc) \o after \o traverseSeq(Tail(es), sc, after)

\* The blocks of a CFG in order, each behind its EnterBlock marker.
traverseBlocks(bs, bid, sc) ==
  IF bs = <<>> THEN <<>>
  ELSE <<enterBlock(bid, Head(bs))>> \o traverseArg(Head(bs), sc)
       \o traverseBlocks(Tail(bs), bid + 1, sc)

\* E->traverse(V) up to reduceX: the operands of E in order, with the scope,
\* CFG and block markers around them.  sc holds the names of the open scopes.
traverseChildren(E, sc) ==
  CASE E.op = "VarDecl" -> traverseArg(E.def, sc)
    [] E.op = "Function" ->
         traverseArg(E.vd, sc) \o <<enterScope>>
         \o traverseArg(E.body, Append(sc, E.vd.name)) \o <<exitScope>>
    [] E.op = "UnaryOp" -> traverseArg(E.e0, sc)
    [] E.op = "BinaryOp" -> traverseArg(E.e0, sc) \o traverseArg(E.e1, sc)
    [] E.op = "Goto" -> traverseSeq(E.args, sc, <<>>)
    [] E.op = "Branch" -> traverseArg(E.cond, sc)
    [] E.op = "Return" -> traverseArg(E.e0, sc)
    [] E.op = "BasicBlock" ->
         traverseSeq(E.args, sc, <<reduceBBArgument>>)
         \o traverseSeq(E.instrs, sc, <<reduceBBInstruction>>)
         \o traverseArg(E.term, sc)
    [] E.op = "SCFG" -> <<enterCFG(E)>> \o traverseBlocks(E.blocks, 0, sc)
    [] OTHER -> <<>>

\* traverseAll(E): the atoms BytecodeWriter::write(E) emits before its flush.
traverseAll(E) == traverseArg(E, <<>>)

(***************************************************************************)
(* BytecodeReader.  B is the reader's own state:                           *)
(*   Success, CurrentInstrID, CurrentArg, CFGStackSize, Stack, Vars,       *)
(*   Blocks, Instrs  - the members of the class;                           *)
(*   Builder         - what the CFGBuilder holds: whether a CFG is open,    *)
(*                     the open block and its arguments and instructions;  *)
(*   diag, made      - the diagnostics printed and the nodes constructed.  *)
(* A handler maps st = [R, B] (byte reader and BytecodeReader) to the      *)
(* state after it.  Vars, Blocks and Instrs are 0-based in the code and    *)
(* 1-based here.                                                           *)
(***************************************************************************)
NoBuilder == [cfg |-> FALSE, cur |-> 0 - 1, args |-> <<>>, instrs |-> <<>>]

\* The constructor without Vars.push_back(nullptr).
NewBytecodeReader_NoNullSlot ==
  [Success |-> TRUE, CurrentInstrID |-> 0, CurrentArg |-> 0, CFGStackSize |-> 0,
   Stack |-> <<>>, Vars |-> <<>>, Blocks |-> <<>>, Instrs |-> <<>>,
   Builder |-> NoBuilder, diag |-> 0, made |-> 0]

NewBytecodeReader ==
  [Success |-> TRUE, CurrentInstrID |-> 0, CurrentArg |-> 0, CFGStackSize |-> 0,
   Stack |-> <<>>, Vars |-> <<NullNode>>, Blocks |-> <<>>, Instrs |-> <<>>,
   Builder |-> NoBuilder, diag |-> 0, made |-> 0]

success(B) == B.Success

\* fail with the message sent twice.
fail_Twice(B) == [B EXCEPT !.Success = FALSE, !.diag = @ + 2]

\* fail without the assignment to Success.
fail_MessageOnly(B) == [B EXCEPT !.diag = @ + 1]

fail(B) == [B EXCEPT !.Success = FALSE, !.diag = @ + 1]

arg(B, i) == B.Stack[Len(B.Stack) - i]

\* push that leaves two entries.
push_Twice(B, E) == [B EXCEPT !.Stack = Append(Append(@, E), E)]

push(B, E) == [B EXCEPT !.Stack = Append(@, E)]

drop(B, n) == [B EXCEPT !.Stack = SubSeq(@, 1, Len(@) - n)]

lastArgs(B, n) == SubSeq(B.Stack, Len(B.Stack) - n + 1, Len(B.Stack))

\* The builder constructs a node and the reader pushes it.
make(B, E) == push([B EXCEPT !.made = @ + 1], E)

\* A word as a number; what does not fit counts as the largest number.
Num(V) == IF Shr(V, 31) = {} THEN Val(V) ELSE 2147483647

\* The assertion of drop(n): Stack.size() - n is computed in size_t, so it
\* wraps around when n is more than the stack holds.
dropAssert(B, n) ==
  \/ ~B.Builder.cfg
  \/ Num(ToUnsigned(SInt(Len(B.Stack) - n), 64)) >= B.CFGStackSize

\* The stack holds k operands (above the stack of the enclosing CFG).
hasArgs(B, k) ==
  Len(B.Stack) >= k + (IF B.Builder.cfg THEN B.CFGStackSize ELSE 0)

readFlag(R, T) == LET x == readBits32(R, getBitSize(T)) IN [R |-> x.R, v |-> Num(x.v)]

\* readPseudoOpcode that leaves the opcode in the stream.
readPseudoOpcode_Peek(R) == [R |-> R, v |-> readFlag(R, "PseudoOpcode").v]

readPseudoOpcode(R) == readFlag(R, "PseudoOpcode")

\* getOpcode without the offset PSOP_Last.
getOpcode_NoOffset(Psop) == Psop

getOpcode(Psop) == Psop - PSOP_Last

\* BaseType::fromUInt8: the base type of the byte; TRUE when a vector size follows.
fromUInt8(b) ==
  [Base |-> IF (b % 128) \in 1..Len(BaseNames) THEN BaseNames[b % 128] ELSE "Void",
   vect |-> b >= 128]

readBaseType(R) ==
  LET x == readUInt8(R)
      f == fromUInt8(Num(x.v))
      y == readUInt8(x.R)
  IN IF f.vect THEN [R |-> y.R, v |-> BT(f.Base, Num(y.v))]
     ELSE [R |-> x.R, v |-> BT(f.Base, 0)]

readLitVal(R, b) ==
  CASE b = "Bool" -> readBool(R)
    [] b = "UInt8" -> readUInt8(R)
    [] b = "UInt16" -> readUInt16(R)
    [] b = "UInt32" -> readUInt32(R)
    [] b = "UInt64" -> readUInt64(R)
    [] b = "Int8" -> readInt8(R)
    [] b = "Int16" -> readInt16(R)
    [] b = "Int32" -> readInt32(R)
    [] b = "Int64" -> readInt64(R)
    [] b = "String" -> readString(R)
    [] b = "Pointer" -> [R |-> R, v |-> "null"]

Failed(st) == [st EXCEPT !.B = fail(@)]

readNull(st) == [st EXCEPT !.B = push(@, NullNode)]

\* The index must lie in the Instrs table of the open CFG.
readWeak(st) ==
  LET x == readUInt32(st.R)
      s1 == [st EXCEPT !.R = x.R]
  IN IF ~st.B.Builder.cfg \/ Num(x.v) >= Len(st.B.Instrs) THEN Failed(s1)
     ELSE [s1 EXCEPT !.B = push(@, st.B.Instrs[Num(x.v) + 1])]

\* The argument or instruction on top of the stack gets the next instruction
\* index and goes into the open block.
readBBMember(st, isArg) ==
  LET B == st.B IN
  IF ~B.Builder.cfg \/ B.Builder.cur < 0 \/ ~hasArgs(B, 1)
     \/ B.CurrentInstrID >= Len(B.Instrs)
  THEN Failed(st)
  ELSE LET B1 == [B EXCEPT !.Instrs[B.CurrentInstrID + 1] = InstrRef(B.CurrentInstrID),
                           !.CurrentInstrID = @ + 1,
                           !.CurrentArg = IF isArg THEN @ + 1 ELSE @,
                           !.Builder.args = IF isArg THEN Append(@, arg(B, 0)) ELSE @,
                           !.Builder.instrs = IF isArg THEN @ ELSE Append(@, arg(B, 0))]
       IN [st EXCEPT !.B = drop(B1, 1)]

readBBArgument(st) == readBBMember(st, TRUE)

readBBInstruction(st) == readBBMember(st, FALSE)

\* The declaration on top of the stack opens a scope.
readEnterScope(st) ==
  IF ~hasArgs(st.B, 1) THEN Failed(st)
  ELSE IF arg(st.B, 0).op # "VarDecl" THEN Failed(st)
  ELSE [st EXCEPT !.B.Vars = Append(@, arg(st.B, 0))]

readExitScope(st) ==
  IF Len(st.B.Vars) <= 1 THEN Failed(st)
  ELSE [st EXCEPT !.B.Vars = SubSeq(@, 1, Len(@) - 1)]

\* enterCFG that resizes Blocks and Instrs without clearing them.
readEnterCFG_NoClear(st) ==
  LET nb == readUInt32(st.R)
      ni == readUInt32(nb.R)
      s1 == [st EXCEPT !.R = ni.R]
      keep(old, n) == [k \in 1..n |-> IF k <= Len(old) THEN old[k] ELSE NullNode]
  IN IF st.B.Builder.cfg THEN Failed(s1)
     ELSE [s1 EXCEPT !.B.Blocks = keep(st.B.Blocks, Num(nb.v)),
                     !.B.Instrs = keep(st.B.Instrs, Num(ni.v)),
                     !.B.CurrentInstrID = 0,
                     !.B.CFGStackSize = Len(st.B.Stack),
                     !.B.Builder = [NoBuilder EXCEPT !.cfg = TRUE]]

readEnterCFG(st) ==
  LET nb == readUInt32(st.R)
      ni == readUInt32(nb.R)
      s1 == [st EXCEPT !.R = ni.R]
  IN IF st.B.Builder.cfg THEN Failed(s1)
     ELSE [s1 EXCEPT !.B.Blocks = [k \in 1..Num(nb.v) |-> NullNode],
                     !.B.Instrs = [k \in 1..Num(ni.v) |-> NullNode],
                     !.B.CurrentInstrID = 0,
                     !.B.CFGStackSize = Len(st.B.Stack),
                     !.B.Builder = [NoBuilder EXCEPT !.cfg = TRUE]]

\* getBlock(Bid, Nargs): the block of that index, created on first use.
\* Yields [B, ok].
getBlock(B, Bid, Nargs) ==
  IF ~B.Builder.cfg \/ Bid >= Len(B.Blocks) THEN [B |-> fail(B), ok |-> FALSE]
  ELSE IF B.Blocks[Bid + 1] = NullNode
  THEN [B |-> [B EXCEPT !.Blocks[Bid + 1] = [op |-> "Block", id |-> Bid, nargs |-> Nargs]],
        ok |-> TRUE]
  ELSE [B |-> B, ok |-> TRUE]

readEnterBlock(st) ==
  LET bid == readUInt32(st.R)
      na == readUInt32(bid.R)
      ni == readUInt32(na.R)
      g == getBlock(st.B, Num(bid.v), Num(na.v))
  IN IF ~g.ok THEN [R |-> ni.R, B |-> g.B]
     ELSE [R |-> ni.R,
           B |-> [g.B EXCEPT !.CurrentArg = 0,
                             !.Builder.cur = Num(bid.v),
                             !.Builder.args = <<>>, !.Builder.instrs = <<>>]]

\* getVarDecl(Vidx): index 0 is no declaration.  Yields [B, ok, name].
getVarDecl(B, Vidx) ==
  IF Vidx >= Len(B.Vars) THEN [B |-> fail(B), ok |-> FALSE, name |-> <<>>]
  ELSE IF Vidx = 0 THEN [B |-> B, ok |-> TRUE, name |-> <<>>]
  ELSE [B |-> B, ok |-> TRUE, name |-> B.Vars[Vidx + 1].name]

\* A->deserialize(B), then the annotation goes to the node on top of the stack.
readAnnotation(st) ==
  LET k == readFlag(st.R, "TIL_AnnKind")
      kind == IF k.v < Len(AnnNames) THEN AnnNames[k.v + 1] ELSE "none"
      str == readString(k.R)
      pos == readUInt64(k.R)
      R1 == CASE kind = "InstrNameAnnot" -> str.R
              [] kind = "SourceLocAnnot" -> pos.R
              [] OTHER -> k.R
      npop == IF kind = "PreconditionAnnot" THEN 1 ELSE 0
      s1 == [st EXCEPT !.R = R1]
  IN IF kind \notin {"InstrNameAnnot", "SourceLocAnnot", "PreconditionAnnot"}
     THEN Failed(s1)
     ELSE IF ~hasArgs(st.B, npop + 1) THEN Failed(s1)
     ELSE LET A == CASE kind = "InstrNameAnnot" -> InstrNameAnnot(str.v)
                     [] kind = "SourceLocAnnot" -> SourceLocAnnot(pos.v)
                     [] kind = "PreconditionAnnot" -> PreconditionAnnot(arg(st.B, 0))
              B1 == drop(st.B, npop)
          IN IF arg(B1, 0).op \in {"Null", "InstrRef"} THEN Failed(s1)
             ELSE [s1 EXCEPT !.B = [B1 EXCEPT !.Stack[Len(B1.Stack)].anns = Append(@, A)]]

readLiteral(st) ==
  LET bt == readBaseType(st.R) IN
  IF bt.v.Base = "Void" THEN [R |-> bt.R, B |-> fail(st.B)]
  ELSE LET x == readLitVal(bt.R, bt.v.Base)
       IN [R |-> x.R, B |-> make(st.B, Literal(bt.v, x.v))]

readVarDecl(st) ==
  LET k == readFlag(st.R, "VariableKind")
      n == readString(k.R)
      s1 == [st EXCEPT !.R = n.R]
  IN IF ~hasArgs(st.B, 1) THEN Failed(s1)
     ELSE [s1 EXCEPT !.B = make(drop(st.B, 1), VarDecl(k.v, n.v, arg(st.B, 0)))]

readFunction(st) ==
  IF ~hasArgs(st.B, 2) THEN Failed(st)
  ELSE [st EXCEPT !.B = make(drop(st.B, 2), Function(arg(st.B, 1), arg(st.B, 0)))]

readVariable(st) ==
  LET x == readUInt32(st.R)
      g == getVarDecl(st.B, Num(x.v))
  IN IF ~g.ok THEN [R |-> x.R, B |-> g.B]
     ELSE [R |-> x.R, B |-> make(g.B, Variable(g.name))]

readUnaryOp(st) ==
  LET u == readFlag(st.R, "TIL_UnaryOpcode")
      s1 == [st EXCEPT !.R = u.R]
  IN IF ~hasArgs(st.B, 1) THEN Failed(s1)
     ELSE [s1 EXCEPT !.B = make(drop(st.B, 1), UnaryOp(u.v, arg(st.B, 0)))]

readBinaryOp(st) ==
  LET b == readFlag(st.R, "TIL_BinaryOpcode")
      s1 == [st EXCEPT !.R = b.R]
  IN IF ~hasArgs(st.B, 2) THEN Failed(s1)
     ELSE [s1 EXCEPT !.B = make(drop(st.B, 2), BinaryOp(b.v, arg(st.B, 1), arg(st.B, 0)))]

readPhi(st) == [st EXCEPT !.B = make(@, Phi)]

readGoto(st) ==
  LET na == readUInt32(st.R)
      bid == readUInt32(na.R)
      n == Num(na.v)
      g == getBlock(st.B, Num(bid.v), n)
  IN IF ~g.ok THEN [R |-> bid.R, B |-> g.B]
     ELSE IF ~hasArgs(g.B, n) THEN [R |-> bid.R, B |-> fail(g.B)]
     ELSE [R |-> bid.R,
           B |-> make(drop(g.B, n), Goto(Num(bid.v), lastArgs(g.B, n)))]

readBranch(st) ==
  LET t == readUInt32(st.R)
      e == readUInt32(t.R)
      g1 == getBlock(st.B, Num(t.v), 0)
      g2 == getBlock(g1.B, Num(e.v), 0)
  IN IF ~g1.ok THEN [R |-> e.R, B |-> g1.B]
     ELSE IF ~g2.ok THEN [R |-> e.R, B |-> g2.B]
     ELSE IF ~hasArgs(g2.B, 1) THEN [R |-> e.R, B |-> fail(g2.B)]
     ELSE [R |-> e.R,
           B |-> make(drop(g2.B, 1), Branch(arg(g2.B, 0), Num(t.v), Num(e.v)))]

readReturn(st) ==
  IF ~hasArgs(st.B, 1) THEN Failed(st)
  ELSE [st EXCEPT !.B = make(drop(st.B, 1), Return(arg(st.B, 0)))]

\* The terminator on top of the stack closes the open block.
readBasicBlock(st) ==
  LET B == st.B IN
  IF ~B.Builder.cfg \/ B.Builder.cur < 0 \/ ~hasArgs(B, 1) THEN Failed(st)
  ELSE LET blk == BasicBlock(B.Builder.args, B.Builder.instrs, arg(B, 0))
           B1 == [B EXCEPT !.Builder.cur = 0 - 1,
                           !.Builder.args = <<>>, !.Builder.instrs = <<>>]
       IN [st EXCEPT !.B = make(drop(B1, 1), blk)]

\* The blocks on the stack become the CFG, which closes.
readSCFG(st) ==
  LET B == st.B
      n == Len(B.Blocks)
  IN IF ~B.Builder.cfg \/ B.Builder.cur >= 0 \/ Len(B.Stack) # B.CFGStackSize + n
     THEN Failed(st)
     ELSE LET B1 == [B EXCEPT !.Builder = NoBuilder]
          IN [st EXCEPT !.B = make(drop(B1, n), SCFG(lastArgs(B, n)))]

readSExprByType(st, Op) ==
  LET name == IF Op >= 0 /\ Op < Len(OpNames) THEN OpNames[Op + 1] ELSE "none" IN
  CASE name = "VarDecl" -> readVarDecl(st)
    [] name = "Function" -> readFunction(st)
    [] name = "SCFG" -> readSCFG(st)
    [] name = "BasicBlock" -> readBasicBlock(st)
    [] name = "Literal" -> readLiteral(st)
    [] name = "Variable" -> readVariable(st)
    [] name = "UnaryOp" -> readUnaryOp(st)
    [] name = "BinaryOp" -> readBinaryOp(st)
    [] name = "Phi" -> readPhi(st)
    [] name = "Goto" -> readGoto(st)
    [] name = "Branch" -> readBranch(st)
    [] name = "Return" -> readReturn(st)
    [] OTHER -> Failed(st)

\* readSExpr: one opcode and what it announces, then the end of its atom.
readSExpr(st) ==
  LET p == readPseudoOpcode(st.R)
      s1 == [st EXCEPT !.R = p.R]
      s2 == CASE p.v = PSOP_Null -> readNull(s1)
              [] p.v = PSOP_WeakInstrRef -> readWeak(s1)
              [] p.v = PSOP_BBArgument -> readBBArgument(s1)
              [] p.v = PSOP_BBInstruction -> readBBInstruction(s1)
              [] p.v = PSOP_EnterScope -> readEnterScope(s1)
              [] p.v = PSOP_ExitScope -> readExitScope(s1)
              [] p.v = PSOP_EnterBlock -> readEnterBlock(s1)
              [] p.v = PSOP_EnterCFG -> readEnterCFG(s1)
              [] p.v = PSOP_Annotation -> readAnnotation(s1)
              [] OTHER -> readSExprByType(s1, getOpcode(p.v))
  IN [s2 EXCEPT !.R = rEndAtom(@)]

\* What read() does once its loop has stopped: the root, or null.  The byte
\* reader's Error is private to ByteStreamReaderBase and has no accessor, so
\* the driver sees the byte reader only through empty() and the values read.
readResult(B) ==
  IF ~success(B) THEN [B |-> B, v |-> NullNode]
  ELSE IF Len(B.Stack) # 1 THEN [B |-> fail(B), v |-> NullNode]
  ELSE [B |-> B, v |-> B.Stack[1]]

(***************************************************************************)
(* The stream client: a program is a sequence of atoms.  It writes the     *)
(* program with a BytecodeStringWriter, field by field with endAtom after  *)
(* each atom and a final flush, then reads it back from an InMemoryReader  *)
(* over the bytes the sink received, with the same field types and the     *)
(* same endAtom calls.                                                     *)
(***************************************************************************)
\* Boundary values of the variable-byte encoding, as words.
U32Values == { {}, {0}, 0..6, {7}, 0..13, {21}, {28}, 0..31 }

U64Values == U32Values \cup { {56}, {63}, 0..63, 0..34 }

MinInt32 == [neg |-> TRUE, abs |-> {31}]

MinInt64 == [neg |-> TRUE, abs |-> {63}]

BitsProbe(N) ==
  LET t == IF N <= 32 THEN "Bits32" ELSE "Bits64" IN
  << Fld(t, N, 0..(N - 1)), Fld(t, N, {N - 1}),
     Fld(t, N, {b \in 0..(N - 1) : b % 2 = 0}) >>

MixedProbes ==
  { << Fld("Bool", 1, TRUE), Fld("Int8", 8, SInt(0 - 1)), Fld("UInt8", 8, 0..7),
       Fld("Int16", 16, SInt(0 - 32768)), Fld("UInt16", 16, 0..15),
       Fld("Int32", 32, MinInt32), Fld("UInt32", 32, 0..31),
       Fld("Int64", 64, SInt(0 - 5)), Fld("UInt64", 64, {63}), Fld("Bool", 1, FALSE) >>,
    << Fld("Int8", 8, SInt(127)), Fld("Int8", 8, SInt(0 - 128)), Fld("Int16", 16, SInt(0 - 2)),
       Fld("Int32", 32, SInt(0 - 3)), Fld("Int32", 32, SInt(2147483647)),
       Fld("Int64", 64, MinInt64), Fld("Int64", 64, [neg |-> FALSE, abs |-> 0..62]),
       Fld("String", 2, <<120, 0>>), Fld("UInt16", 16, {7}) >>,
    << Fld("UInt64", 64, 0..63), Fld("Bool", 1, TRUE), Fld("UInt32", 32, {28}),
       Fld("Int64", 64, SInt(0 - 1)), Fld("UInt8", 8, {}) >>,
    << Fld("Bits32", 5, {4}), Fld("Int64", 64, SInt(0 - 7)), Fld("Bits64", 33, {0, 32}),
       Fld("Bool", 1, TRUE), Fld("Bits32", 17, {16}), Fld("Int16", 16, SInt(0 - 300)) >> }

\* Chains that are too long: n bytes with the flag and all value bits set,
\* written with writeBytes and read as one unsigned value (v is the value
\* of the groups a decoder of that width takes), and one more such byte, read
\* as a byte.
ChainProbes ==
  { << Fld("Groups32", 5, 0..31), Fld("UInt8", 8, 0..7) >>,
    << Fld("Groups64", 10, 0..63), Fld("UInt8", 8, 0..7) >> }

Probes ==
  { <<Fld("UInt32", 32, V)>> : V \in U32Values }
  \cup { <<Fld("UInt64", 64, V)>> : V \in U64Values }
  \cup { BitsProbe(N) : N \in 1..64 }
  \cup MixedProbes
  \cup ChainProbes

\* A full-size atom: MaxAtomSize bytes, the first and the last non-zero.
Filler(k) ==
  << Fld("Bytes", MaxAtomSize,
         [len |-> MaxAtomSize, nz |-> (0 :> (k + 1)) @@ ((MaxAtomSize - 1) :> 255)]) >>

Fillers(n) == [k \in 1..n |-> Filler(k)]

\* How many full-size atoms go before and after the probe.
FillPairs == { <<0, 0>>, <<0, MaxFill>>, <<MaxFill - 1, 1>>, <<MaxFill, 1>> }

Programs ==
  { Fillers(fp[1]) \o <<p>> \o Fillers(fp[2]) : fp \in FillPairs, p \in Probes }

\* Stream offsets: bytes written so far, bytes consumed so far.
wOffset == Sink.len + Writer.Pos

rOffset == Reader.SourcePos - rLength(Reader)

NoHist == [wFields |-> <<>>, wEnds |-> <<>>, wFlushed |-> <<>>,
           rFields |-> <<>>, rEnds |-> <<>>, rRefilled |-> <<>>, dtor |-> "none"]

StreamInit ==
  /\ input \in { [kind |-> "stream", atoms |-> p] : p \in Programs }
  /\ pc = "swrite"
  /\ todo = input.atoms
  /\ rtodo = <<>>
  /\ Writer = NewWriter
  /\ Sink = EmptyArr
  /\ Reader = NewReader(EmptyArr)
  /\ BR = NewBytecodeReader
  /\ result = NullNode
  /\ hist = NoHist

SWriteField ==
  /\ pc = "swrite" /\ todo # <<>> /\ Head(todo) # <<>>
  /\ Writer' = writeField(Writer, Head(Head(todo)))
  /\ todo' = <<Tail(Head(todo))>> \o Tail(todo)
  /\ hist' = [hist EXCEPT !.wFields = Append(@, Sink.len + Writer'.Pos)]
  /\ UNCHANGED <<pc, input, rtodo, Sink, Reader, BR, result>>

SEndAtom ==
  /\ pc = "swrite" /\ todo # <<>> /\ Head(todo) = <<>>
  /\ LET ws == wEndAtom([W |-> Writer, S |-> Sink]) IN
       /\ Writer' = ws.W
       /\ Sink' = ws.S
       /\ hist' = [hist EXCEPT !.wEnds = Append(@, wOffset),
                               !.wFlushed = Append(@, ws.S # Sink)]
  /\ todo' = Tail(todo)
  /\ UNCHANGED <<pc, input, rtodo, Reader, BR, result>>

SFlush ==
  /\ pc = "swrite" /\ todo = <<>>
  /\ LET ws == flush([W |-> Writer, S |-> Sink]) IN
       /\ Writer' = ws.W
       /\ Sink' = ws.S
  /\ pc' = "sopen"
  /\ UNCHANGED <<input, todo, rtodo, Reader, BR, result, hist>>

SOpen ==
  /\ pc = "sopen"
  /\ Reader' = NewReader(Sink)
  /\ rtodo' = input.atoms
  /\ pc' = "sread"
  /\ UNCHANGED <<input, todo, Writer, Sink, BR, result, hist>>

SReadField ==
  /\ pc = "sread" /\ rtodo # <<>> /\ Head(rtodo) # <<>>
  /\ LET x == readField(Reader, Head(Head(rtodo))) IN
       /\ Reader' = x.R
       /\ hist' = [hist EXCEPT !.rFields =
                     Append(@, [v |-> x.v, off |-> x.R.SourcePos - rLength(x.R)])]
  /\ rtodo' = <<Tail(Head(rtodo))>> \o Tail(rtodo)
  /\ UNCHANGED <<pc, input, todo, Writer, Sink, BR, result>>

SREndAtom ==
  /\ pc = "sread" /\ rtodo # <<>> /\ Head(rtodo) = <<>>
  /\ Reader' = rEndAtom(Reader)
  /\ hist' = [hist EXCEPT !.rEnds = Append(@, rOffset),
                          !.rRefilled = Append(@, Reader'.SourcePos # Reader.SourcePos)]
  /\ rtodo' = Tail(rtodo)
  /\ pc' = IF Tail(rtodo) = <<>> THEN "sdone" ELSE "sread"
  /\ UNCHANGED <<input, todo, Writer, Sink, BR, result>>

StreamNext ==
  \/ SWriteField
  \/ SEndAtom
  \/ SFlush
  \/ SOpen
  \/ SReadField
  \/ SREndAtom

SpecStream == StreamInit /\ [][StreamNext]_vars

\* The fields of the program, in order.
RECURSIVE Flatten(_)
Flatten(atoms) == IF atoms = <<>> THEN <<>> ELSE Head(atoms) \o Flatten(Tail(atoms))

(***************************************************************************)
(* The codec client: BytecodeWriter::write(E) into a BytecodeStringWriter, *)
(* then BytecodeReader::read() from an InMemoryReader over the bytes the   *)
(* sink received, less the bytes cut from their end.  A raw input is a     *)
(* sequence of atoms written as they are: a stream no traversal produces.  *)
(***************************************************************************)
NameX == <<120>>

NameY == <<121>>

L(b, v) == Literal(BT(b, 0), v)

L42 == L("UInt32", Word(42))

Literals ==
  { L("Bool", TRUE), L("UInt8", 0..7), L("UInt16", {15}), L("UInt32", {7}),
    L("UInt32", 0..31), L("UInt64", {63}), L("UInt64", 0..63), L("Int8", SInt(0 - 1)),
    L("Int16", SInt(0 - 2)), L("Int32", MinInt32), L("Int64", SInt(0 - 5)), L("Int64", MinInt64),
    L("String", <<104, 105>>), L("Pointer", "null"), Literal(BT("UInt32", 4), {0, 2}) }

VdX == VarDecl(1, NameX, NullNode)

VdY == VarDecl(2, NameY, L42)

Add(a, b) == BinaryOp(1, a, b)

Scoped ==
  { Variable(<<>>),
    Function(VdX, Add(Variable(NameX), Variable(NameX))),
    Function(VdX, Function(VdY, Add(Variable(NameX), UnaryOp(2, Variable(NameY))))),
    Add(Function(VdX, Variable(NameX)), Function(VdY, Variable(NameY))) }

NameAnn == InstrNameAnnot(NameX)

Annotated ==
  { Function(VdX, With(Add(Variable(NameX), Variable(NameX)), <<NameAnn>>)),
    With(L42, <<NameAnn, SourceLocAnnot({56}), InstrNameAnnot(NameY)>>),
    With(Add(L42, With(L("Bool", TRUE), <<SourceLocAnnot({3})>>)),
         <<PreconditionAnnot(Add(L42, L("Int8", SInt(0 - 1)))), NameAnn>>),
    With(L42, <<PreconditionAnnot(With(UnaryOp(1, L42), <<NameAnn>>)),
                PreconditionAnnot(L("Bool", FALSE))>>),
    With(Function(With(VdY, <<NameAnn>>), With(Variable(NameY), <<SourceLocAnnot({})>>)),
         <<InstrNameAnnot(NameY)>>) }

CFGs ==
  { SCFG(<< BasicBlock(<<Phi, Phi>>, <<Add(InstrRef(0), InstrRef(1))>>, Goto(1, <<>>)),
            BasicBlock(<<>>, <<>>, Return(L42)) >>),
    SCFG(<< BasicBlock(<<>>, <<With(UnaryOp(1, L42), <<NameAnn>>)>>,
                       Goto(1, <<InstrRef(0)>>)),
            BasicBlock(<<With(Phi, <<SourceLocAnnot({9})>>)>>,
                       <<Add(InstrRef(1), InstrRef(0))>>,
                       Branch(InstrRef(2), 1, 2)),
            BasicBlock(<<>>, <<>>, Return(InstrRef(2))) >>),
    Function(VdX, SCFG(<< BasicBlock(<<>>, <<UnaryOp(3, Variable(NameX))>>,
                                     Return(InstrRef(0))) >>)),
    Add(SCFG(<< BasicBlock(<<Phi>>, <<>>, Return(InstrRef(0))) >>),
        SCFG(<< BasicBlock(<<>>, <<UnaryOp(1, L42), UnaryOp(2, InstrRef(0))>>,
                           Return(InstrRef(1))) >>)) }

\* Literals the writer refuses: the pointer is not null.
BadPointers ==
  { L("Pointer", "ptr"), Add(L42, L("Pointer", "ptr")),
    Literal(BT("Pointer", 2), "ptr") }

Exprs == Literals \cup Scoped \cup Annotated \cup CFGs \cup BadPointers

OneBlockCFG == SCFG(<< BasicBlock(<<Phi>>, <<>>, Return(InstrRef(0))) >>)

\* Streams that break the protocol.
RawStreams ==
  << <<>>,
    <<reduceWeak(InstrRef(0))>>,
    <<reduceWeak(InstrRef(0)), reduce(L42, <<>>)>>,
    <<enterCFG(OneBlockCFG), enterBlock(0, OneBlockCFG.blocks[1]), reduce(Phi, <<>>),
      reduceBBArgument, reduceWeak(InstrRef(1)), reduce(L42, <<>>)>>,
    <<enterCFG(OneBlockCFG), enterBlock(0, OneBlockCFG.blocks[1]), reduce(Phi, <<>>),
      reduceBBArgument, reduceWeak(InstrRef(0)), reduce(Return(NullNode), <<>>),
      reduce(OneBlockCFG.blocks[1], <<>>), reduce(OneBlockCFG, <<>>)>>,
    traverseAll(OneBlockCFG) \o <<reduceWeak(InstrRef(0))>>,
    <<reduce(L42, <<>>), reduce(L("Bool", TRUE), <<>>)>>,
    <<reduce(L42, <<>>), reduce(L42, <<>>), reduce(L42, <<>>)>>,
    <<reduceNull, exitScope, reduce(L42, <<>>)>>,
    <<reduce(L42, <<>>), reduce(Add(L42, L42), <<>>), reduce(L42, <<>>)>>,
    <<reduce(L42, <<>>), <<writePseudoOpcode(63)>>, reduce(L42, <<>>)>>,
    <<reduce(L42, <<>>), reduceAnnotationT(PreconditionAnnot(L42))>>,
    <<exitScope, <<writePseudoOpcode(63)>>, reduceWeak(InstrRef(0))>>,
    <<reduce(Variable(NameX), <<NameX>>)>>,
    traverseArg(VdX, <<>>) \o <<enterScope, reduce(Variable(NameX), <<NameY, NameX>>)>>,
    <<reduce(L42, <<>>), enterScope>>,
    traverseAll(OneBlockCFG)
      \o <<enterCFG(OneBlockCFG), enterBlock(0, OneBlockCFG.blocks[1]),
           reduceWeak(InstrRef(0))>>,
    <<reduce(L42, <<>>), enterCFG(OneBlockCFG), enterBlock(0, OneBlockCFG.blocks[1]),
      reduce(Add(L42, L42), <<>>)>>,
    <<reduce(L42, <<>>), enterCFG(OneBlockCFG), enterBlock(0, OneBlockCFG.blocks[1]),
      reduce(Return(L42), <<>>)>> >>

Inputs ==
  { [kind |-> "expr", e |-> e, raw |-> 0, cut |-> c] : e \in Exprs, c \in 0..MaxTrunc }
  \cup { [kind |-> "raw", e |-> NullNode, raw |-> i, cut |-> 0] :
            i \in 1..Len(RawStreams) }

\* The atoms the writer is to write.
Atoms(in) == IF in.kind = "expr" THEN traverseAll(in.e) ELSE RawStreams[in.raw]

\* writeLitVal(void* P): the assertion P == nullptr.
assertNullPtr(P) == P = "null"

\* The fields of one atom, written in order up to a failing assertion.
RECURSIVE writeFields(_, _)
writeFields(W, fs) ==
  IF fs = <<>> THEN [W |-> W, ok |-> TRUE]
  ELSE IF Head(fs).t = "Ptr" /\ ~assertNullPtr(Head(fs).v) THEN [W |-> W, ok |-> FALSE]
  ELSE writeFields(writeField(W, Head(fs)), Tail(fs))

\* The bytes the reader is given: the sink's, less cut bytes at the end.
Damaged(S, cut) == IF cut >= S.len THEN EmptyArr ELSE Slice(S.nz, 0, S.len - cut)

\* The stream offset at which the atom being written began.
AtomStart == IF hist.wEnds = <<>> THEN 0 ELSE hist.wEnds[Len(hist.wEnds)]

Init ==
  /\ input \in Inputs
  /\ pc = "write"
  /\ todo = Atoms(input)
  /\ rtodo = <<>>
  /\ Writer = NewWriter
  /\ Sink = EmptyArr
  /\ Reader = NewReader(EmptyArr)
  /\ BR = NewBytecodeReader
  /\ result = NullNode
  /\ hist = NoHist

\* One node, marker or annotation: its fields, then endAtom.  A failing
\* assertion stops the program where it fails.
WriteAtom ==
  /\ pc = "write" /\ todo # <<>>
  /\ LET x == writeFields(Writer, Head(todo))
         ws == wEndAtom([W |-> x.W, S |-> Sink])
     IN IF x.ok
        THEN /\ Writer' = ws.W
             /\ Sink' = ws.S
             /\ todo' = Tail(todo)
             /\ pc' = pc
             /\ hist' = [hist EXCEPT !.wEnds = Append(@, Sink.len + x.W.Pos),
                                     !.wFlushed = Append(@, ws.S # Sink)]
        ELSE /\ Writer' = x.W
             /\ pc' = "aborted"
             /\ UNCHANGED <<Sink, todo, hist>>
  /\ UNCHANGED <<input, rtodo, Reader, BR, result>>

\* The end of write(E): Writer->flush().
WriteFlush ==
  /\ pc = "write" /\ todo = <<>>
  /\ LET ws == flush([W |-> Writer, S |-> Sink]) IN
       /\ Writer' = ws.W
       /\ Sink' = ws.S
  /\ pc' = "written"
  /\ UNCHANGED <<input, todo, rtodo, Reader, BR, result, hist>>

\* InMemoryReader and BytecodeReader are constructed.
OpenReader ==
  /\ pc = "written"
  /\ Reader' = NewReader(Damaged(Sink, input.cut))
  /\ BR' = NewBytecodeReader
  /\ pc' = "read"
  /\ UNCHANGED <<input, todo, rtodo, Writer, Sink, result, hist>>

\* One turn of the loop of read(): while the reader is not empty and nothing
\* has failed, read one SExpr.
ReadSExpr ==
  /\ pc = "read" /\ ~empty(Reader) /\ success(BR)
  /\ LET st == readSExpr([R |-> Reader, B |-> BR]) IN
       /\ Reader' = st.R
       /\ BR' = st.B
  /\ hist' = [hist EXCEPT !.rEnds = Append(@, Reader'.SourcePos - rLength(Reader'))]
  /\ UNCHANGED <<pc, input, todo, rtodo, Writer, Sink, result>>

\* read() returns.
ReadReturn ==
  /\ pc = "read" /\ (empty(Reader) \/ ~success(BR))
  /\ LET r == readResult(BR) IN
       /\ BR' = r.B
       /\ result' = r.v
  /\ pc' = "done"
  /\ UNCHANGED <<input, todo, rtodo, Writer, Sink, Reader, hist>>

\* The classes a stream writer can be: the two of Bytecode.h, whose
\* destructors flush, and a derived class whose destructor does not.
WriterKinds == {"BytecodeStringWriter", "BytecodeFileWriter", "ByteStreamWriterBase"}

\* A destructor that leaves everything to ~ByteStreamWriterBase.
destroy_BaseOnly(kind, ws) == [ws |-> ws, ok |-> ws.W.Pos = 0]

\* ~BytecodeStringWriter and ~BytecodeFileWriter call flush(); then
\* ~ByteStreamWriterBase asserts Pos == 0.  ok: the assertion holds.
destroy(kind, ws) ==
  LET w == IF kind \in {"BytecodeStringWriter", "BytecodeFileWriter"} THEN flush(ws) ELSE ws
  IN [ws |-> w, ok |-> w.W.Pos = 0]

\* The stream writer is destroyed: after write(E) has returned, or after a
\* traversal that was not followed by a flush.
DestroyWriter ==
  /\ pc = "written" \/ (pc = "write" /\ todo = <<>>)
  /\ \E kind \in WriterKinds :
       LET d == destroy(kind, [W |-> Writer, S |-> Sink]) IN
         /\ Writer' = d.ws.W
         /\ Sink' = d.ws.S
         /\ pc' = IF d.ok THEN "destroyed" ELSE "asserted"
         /\ hist' = [hist EXCEPT !.dtor = kind]
  /\ UNCHANGED <<input, todo, rtodo, Reader, BR, result>>

Next ==
  \/ WriteAtom
  \/ WriteFlush
  \/ DestroyWriter
  \/ OpenReader
  \/ ReadSExpr
  \/ ReadReturn

Spec == Init /\ [][Next]_vars

(***************************************************************************)
(* Claims about the codec (Spec).                                          *)
(***************************************************************************)
\* C1: for every SExpr the writer serializes, read() on exactly the bytes
\* the sink received succeeds and returns a root structurally equal to it.
C1_RoundTrip ==
  (pc = "done" /\ input.kind = "expr" /\ input.cut = 0)
     => (success(BR) /\ result = input.e)

\* A CFG of three blocks with phi arguments, instructions, annotations and
\* terminators has been read back.
C1_Witness ==
  /\ pc = "done" /\ input.kind = "expr" /\ input.cut = 0
  /\ input.e.op = "SCFG" /\ Len(input.e.blocks) = 3
  /\ success(BR) /\ result = input.e

\* C5: when the stream was cut short and a read ran past the end of the
\* source, success() is false and read() has returned null.
C5_TruncationFails ==
  (pc = "done" /\ Reader.Error) => (~success(BR) /\ result = NullNode)

\* C6: once Success is false or the byte reader's Error is set, success() is
\* false in every later state, no node is constructed or pushed, and read()
\* returns null.
C6_FailureSticky ==
  [][(pc = "read" /\ (~BR.Success \/ Reader.Error))
       => /\ ~BR'.Success
          /\ BR'.made = BR.made
          /\ Len(BR'.Stack) <= Len(BR.Stack)
          /\ (pc' = "done" => result' = NullNode)]_vars

\* The opcode and the index of the atom the reader stands before.
NextPsop == readPseudoOpcode(Reader).v

WeakIndex == Num(readUInt32(readPseudoOpcode(Reader).R).v)

AtWeakInstrRef ==
  pc = "read" /\ ~empty(Reader) /\ success(BR) /\ NextPsop = PSOP_WeakInstrRef

\* C7: the index of a WeakInstrRef is checked against Instrs of the open CFG:
\* an index below Instrs.size() pushes the instruction stored there; any other
\* index, or a WeakInstrRef outside a CFG, makes success() false, pushes
\* nothing, and read() returns null.
C7_WeakInstrRefChecked ==
  [][/\ AtWeakInstrRef =>
          IF BR.Builder.cfg /\ WeakIndex < Len(BR.Instrs)
          THEN success(BR') /\ BR'.Stack = Append(BR.Stack, BR.Instrs[WeakIndex + 1])
          ELSE ~success(BR') /\ BR'.Stack = BR.Stack
     /\ (pc' = "done" /\ ~success(BR')) => result' = NullNode]_vars

\* Inside a CFG with one instruction the index 1 was refused: the read
\* stopped there, before the end of the stream, and returned null.
C7_Witness ==
  /\ pc = "done" /\ input.kind = "raw"
  /\ BR.Builder.cfg /\ Len(BR.Instrs) = 1 /\ BR.CurrentInstrID = 1
  /\ ~empty(Reader) /\ ~success(BR) /\ result = NullNode

\* The operands of a node, in order.
Children(E) ==
  CASE E.op = "VarDecl" -> <<E.def>>
    [] E.op = "Function" -> <<E.vd, E.body>>
    [] E.op = "UnaryOp" -> <<E.e0>>
    [] E.op = "BinaryOp" -> <<E.e0, E.e1>>
    [] E.op = "Goto" -> E.args
    [] E.op = "Branch" -> <<E.cond>>
    [] E.op = "Return" -> <<E.e0>>
    [] E.op = "BasicBlock" -> E.args \o E.instrs \o <<E.term>>
    [] E.op = "SCFG" -> E.blocks
    [] OTHER -> <<>>

\* Every annotation within E, conditions included, as the writer meets them.
RECURSIVE EmittedAnns(_), EmittedAnnsOfNodes(_), EmittedAnnsOfList(_)
EmittedAnns(E) ==
  IF E.op \in {"Null", "InstrRef"} THEN <<>>
  ELSE EmittedAnnsOfNodes(Children(E)) \o EmittedAnnsOfList(E.anns)

EmittedAnnsOfNodes(es) ==
  IF es = <<>> THEN <<>> ELSE EmittedAnns(Head(es)) \o EmittedAnnsOfNodes(Tail(es))

EmittedAnnsOfList(As) ==
  IF As = <<>> THEN <<>>
  ELSE (IF Head(As).kind = "PreconditionAnnot" THEN EmittedAnns(Head(As).cond) ELSE <<>>)
       \o <<Head(As)>> \o EmittedAnnsOfList(Tail(As))

\* Every node within E, conditions of annotations included.
RECURSIVE NodesOf(_), NodesOfSeq(_), NodesOfAnns(_)
NodesOf(E) ==
  IF E.op \in {"Null", "InstrRef"} THEN <<>>
  ELSE <<E>> \o NodesOfSeq(Children(E)) \o NodesOfAnns(E.anns)

NodesOfSeq(es) == IF es = <<>> THEN <<>> ELSE NodesOf(Head(es)) \o NodesOfSeq(Tail(es))

NodesOfAnns(As) ==
  IF As = <<>> THEN <<>>
  ELSE (IF Head(As).kind = "PreconditionAnnot" THEN NodesOf(Head(As).cond) ELSE <<>>)
       \o NodesOfAnns(Tail(As))

IsAnnotationAtom(a) == a # <<>> /\ a[1] = writePseudoOpcode(PSOP_Annotation)

IsLeafAnnot(A) == A.kind # "PreconditionAnnot"

\* C8: the writer emits one atom per annotation, in list order, behind the
\* atom of the node that carries them, and after decoding every node has the
\* annotation list it was written with, in the same order.
C8_AnnotationOrder ==
  input.kind = "expr" =>
    LET e == input.e
        k == Len(e.anns)
        A == Atoms(input)
        W == SelectSeq(A, IsAnnotationAtom)
        X == EmittedAnns(e)
    IN /\ W = [i \in 1..Len(X) |-> reduceAnnotationT(X[i])]
       /\ (\A i \in 1..k : IsLeafAnnot(e.anns[i])) =>
             /\ A[Len(A) - k] = reduce(e, <<>>)
             /\ \A i \in 1..k : A[Len(A) - k + i] = reduceAnnotationT(e.anns[i])
       /\ k > 0 => A[Len(A)] = reduceAnnotationT(e.anns[k])
       /\ (pc = "done" /\ input.cut = 0) =>
             LET a == NodesOf(e)
                 b == NodesOf(result)
             IN /\ Len(b) = Len(a)
                /\ \A i \in 1..Len(a) : b[i].op = a[i].op /\ b[i].anns = a[i].anns

\* A node with two annotations, the first with an annotated condition, has
\* been read back with both, and so has the condition with its own.
C8_Witness ==
  /\ pc = "done" /\ input.kind = "expr" /\ input.cut = 0
  /\ Len(input.e.anns) = 2
  /\ input.e.anns[1].kind = "PreconditionAnnot"
  /\ input.e.anns[1].cond.anns # <<>>
  /\ result.op = input.e.op
  /\ result.anns = input.e.anns

\* C9: when the assertion of writeLitVal(void*) fails, nothing of the literal
\* has been written: buffer and sink hold what they held when its atom began.
C9_NothingWritten ==
  pc = "aborted" => Sink.len + Writer.Pos = AtomStart

\* C10: read() on a valid stream stops with exactly one stack entry and
\* returns it; with no entry or more than one, success() is false and the
\* result is null.
C10_ReadTermination ==
  pc = "done" =>
    /\ (input.kind = "expr" /\ input.cut = 0) =>
          (success(BR) /\ Len(BR.Stack) = 1 /\ result = BR.Stack[1])
    /\ Len(BR.Stack) # 1 => (~success(BR) /\ result = NullNode)
    /\ success(BR) => result = BR.Stack[1]

\* Two literals were read to the end of the stream without a failure; read()
\* then refused the two entries.
C10_Witness ==
  /\ pc = "done" /\ input.kind = "raw"
  /\ empty(Reader) /\ BR.made = 2 /\ Len(BR.Stack) = 2
  /\ ~success(BR) /\ result = NullNode

\* The bytes written that the sink has not received.
Unflushed == AtomStart - Sink.len

\* C12: flush() sends what is buffered and leaves Pos == 0; the assertion of
\* ~ByteStreamWriterBase fails exactly when bytes were written since the last
\* flush; it never fails for a BytecodeStringWriter or a BytecodeFileWriter,
\* nor for any writer destroyed directly after write(E) has returned.
C12_FlushBeforeDestruction ==
  /\ [](pc = "written" => (Writer.Pos = 0 /\ Unflushed = 0))
  /\ [](pc = "asserted" => hist.dtor = "ByteStreamWriterBase")
  /\ [][/\ (pc = "write" /\ pc' = "written") =>
             /\ Writer'.Pos = 0
             /\ Sink' = Concat(Sink, Slice(Writer.Buffer, 0, Writer.Pos))
        /\ pc' \in {"destroyed", "asserted"} =>
             /\ hist'.dtor = "ByteStreamWriterBase" =>
                  ((pc' = "asserted") <=> (Unflushed > 0))
             /\ pc = "written" => pc' = "destroyed"
             /\ Sink'.len = IF hist'.dtor = "ByteStreamWriterBase" THEN Sink.len
                            ELSE AtomStart]_vars

\* A writer whose destructor does not flush was destroyed after a traversal
\* without a flush: the assertion failed with bytes still in the buffer.
C12_Witness ==
  /\ pc = "asserted" /\ hist.dtor = "ByteStreamWriterBase"
  /\ Writer.Pos > 0 /\ Sink.len = 0 /\ todo = <<>>

\* The reader stands before the atom of a precondition annotation.
AtPrecondition ==
  /\ pc = "read" /\ ~empty(Reader) /\ success(BR) /\ NextPsop = PSOP_Annotation
  /\ readFlag(readPseudoOpcode(Reader).R, "TIL_AnnKind").v = ANNKIND("PreconditionAnnot")

\* The precondition annotations of a list.
Preconditions(As) == SelectSeq(As, LAMBDA A : A.kind = "PreconditionAnnot")

\* C13: for a node n with a precondition annotation whose condition is a
\* nested expression c, the writer emits the atoms of c right before the
\* annotation's atom; the reader takes c from the top of the stack, attaches
\* the annotation to n beneath it and leaves no entry for c; after the round
\* trip n has the precondition annotations it was written with, each with a
\* condition equal to the one written.
C13_PreconditionNesting ==
  /\ [](input.kind = "expr" =>
          LET e == input.e
              k == Len(e.anns)
              A == Atoms(input)
          IN /\ \A i \in 1..k : e.anns[i].kind = "PreconditionAnnot" =>
                  LET tc == traverseArg(e.anns[i].cond, <<>>)
                      at == Len(A) - Len(traverseAnnotations(SubSeq(e.anns, i + 1, k), <<>>))
                  IN /\ A[at] = reduceAnnotationT(e.anns[i])
                     /\ at > Len(tc)
                     /\ SubSeq(A, at - Len(tc), at - 1) = tc
             /\ (pc = "done" /\ input.cut = 0) =>
                  /\ Len(BR.Stack) = 1
                  /\ result.op = e.op
                  /\ Len(result.anns) = k
                  /\ Preconditions(result.anns) = Preconditions(e.anns)
                  /\ \A i \in 1..k : e.anns[i].kind = "PreconditionAnnot" =>
                        /\ result.anns[i].kind = "PreconditionAnnot"
                        /\ result.anns[i].cond = e.anns[i].cond)
  /\ [][(AtPrecondition /\ hasArgs(BR, 2)
           /\ arg(BR, 1).op \notin {"Null", "InstrRef"}) =>
          LET c == arg(BR, 0)
              n == arg(BR, 1)
          IN /\ success(BR')
             /\ Len(BR'.Stack) = Len(BR.Stack) - 1
             /\ arg(BR', 0) = [n EXCEPT !.anns = Append(@, PreconditionAnnot(c))]
             /\ \A j \in 1..(Len(BR.Stack) - 2) : BR'.Stack[j] = BR.Stack[j]]_vars

\* A node with one precondition annotation whose condition is a binary
\* operation has been read back: the annotation is on the node, its condition
\* is the one written, and the stack holds the node alone.
C13_Witness ==
  /\ pc = "done" /\ input.kind = "expr" /\ input.cut = 0
  /\ Len(Preconditions(input.e.anns)) = 1
  /\ input.e.anns[1].kind = "PreconditionAnnot"
  /\ input.e.anns[1].cond.op = "BinaryOp"
  /\ Preconditions(result.anns) = <<input.e.anns[1]>>
  /\ BR.Stack = <<result>>

ReadBackPsop(f) ==
  LET W == writeField(NewWriter, f)
  IN readPseudoOpcode(NewReader(Slice(W.Buffer, 0, W.Pos))).v

\* The reader stands before an atom of an expression written whole.
AtWrittenAtom ==
  /\ pc = "read" /\ ~empty(Reader) /\ success(BR)
  /\ input.kind = "expr" /\ input.cut = 0

\* C19: for every opcode Op the value PSOP_Last + Op fits the 6 bits of the
\* field writeOpcode writes, is read back as written, is not below PSOP_Last,
\* and getOpcode of it is Op; a pseudo-opcode is read back below PSOP_Last;
\* and the reader, on a value of PSOP_Last or more, builds a node of the
\* opcode getOpcode yields, which is the opcode of the node written there.
C19_OpcodeOffset ==
  /\ PSOP_Last = 9
  /\ \A Op \in 0..(Len(OpNames) - 1) :
        /\ PSOP_Last + Op <= 63
        /\ writeOpcode(Op).n = 6
        /\ ReadBackPsop(writeOpcode(Op)) = PSOP_Last + Op
        /\ ReadBackPsop(writeOpcode(Op)) >= PSOP_Last
        /\ getOpcode(ReadBackPsop(writeOpcode(Op))) = Op
  /\ \A P \in 0..(PSOP_Last - 1) :
        /\ ReadBackPsop(writePseudoOpcode(P)) = P
        /\ ReadBackPsop(writePseudoOpcode(P)) < PSOP_Last
  /\ [][AtWrittenAtom =>
          LET a == Atoms(input)[Len(hist.rEnds) + 1] IN
          /\ a[1] = writePseudoOpcode(NextPsop)
          /\ IF NextPsop >= PSOP_Last
             THEN /\ getOpcode(NextPsop) \in 0..(Len(OpNames) - 1)
                  /\ success(BR')
                  /\ BR'.made = BR.made + 1
                  /\ arg(BR', 0).op = OpNames[getOpcode(NextPsop) + 1]
                  /\ a[1] = writeOpcode(COP(arg(BR', 0).op))
             ELSE BR'.made = BR.made]_vars

\* The atom of a Return, the highest opcode of the expressions written, has
\* been read: the node on top of the stack is a Return.
C19_Witness ==
  /\ pc = "read" /\ input.kind = "expr" /\ input.cut = 0 /\ success(BR)
  /\ hist.rEnds # <<>> /\ BR.Stack # <<>>
  /\ Atoms(input)[Len(hist.rEnds)][1] = writeOpcode(COP("Return"))
  /\ arg(BR, 0).op = "Return"
  /\ PSOP_Last + COP("Return") = 36

\* The reader is about to take an atom.
AtReadAtom == pc = "read" /\ ~empty(Reader) /\ success(BR)

\* The index a Variable atom carries behind its opcode.
VarIdx == Num(readUInt32(readPseudoOpcode(Reader).R).v)

\* EnterScope atoms less ExitScope atoms in a sequence of atoms.
RECURSIVE ScopeDepth(_)
ScopeDepth(atoms) ==
  IF atoms = <<>> THEN 0
  ELSE (CASE Head(atoms) = enterScope -> 1
          [] Head(atoms) = exitScope -> 0 - 1
          [] OTHER -> 0) + ScopeDepth(Tail(atoms))

\* C20: slot 0 of Vars is the null slot in every state; EnterScope appends
\* the declaration on top of the stack, ExitScope removes the last one, no
\* other atom changes Vars, and Vars.size() - 1 is the number of scopes
\* entered and not left; a Variable of index 0 has no declaration, one of
\* an index up to Vars.size() - 1 has the declaration of that slot, a larger
\* index and an ExitScope with no scope open are fatal; after a successful
\* read() of a stream written by write(E) Vars holds slot 0 alone.
C20_ScopeDiscipline ==
  /\ [](/\ BR.Vars # <<>> /\ BR.Vars[1] = NullNode
        /\ \A i \in 2..Len(BR.Vars) : BR.Vars[i].op = "VarDecl"
        /\ (pc \in {"read", "done"} /\ success(BR)) =>
              Len(BR.Vars) - 1 = ScopeDepth(SubSeq(Atoms(input), 1, Len(hist.rEnds)))
        /\ (pc = "done" /\ success(BR) /\ input.kind = "expr" /\ input.cut = 0) =>
              BR.Vars = <<NullNode>>)
  /\ [][AtReadAtom =>
          CASE NextPsop = PSOP_EnterScope ->
                 IF hasArgs(BR, 1) /\ arg(BR, 0).op = "VarDecl"
                 THEN success(BR') /\ BR'.Vars = Append(BR.Vars, arg(BR, 0))
                 ELSE ~success(BR') /\ BR'.Vars = BR.Vars
            [] NextPsop = PSOP_ExitScope ->
                 IF Len(BR.Vars) > 1
                 THEN success(BR') /\ BR'.Vars = SubSeq(BR.Vars, 1, Len(BR.Vars) - 1)
                 ELSE ~success(BR') /\ BR'.Vars = BR.Vars
            [] NextPsop = PSOP_Last + COP("Variable") ->
                 /\ BR'.Vars = BR.Vars
                 /\ CASE VarIdx = 0 ->
                           success(BR') /\ arg(BR', 0) = Variable(<<>>)
                      [] VarIdx \in 1..(Len(BR.Vars) - 1) ->
                           /\ success(BR')
                           /\ arg(BR', 0) = Variable(BR.Vars[VarIdx + 1].name)
                      [] OTHER -> ~success(BR') /\ BR'.Stack = BR.Stack
            [] OTHER -> BR'.Vars = BR.Vars]_vars

\* Inside two nested scopes a Variable of index 1 has been read: it has the
\* declaration of the outer scope, and Vars holds the null slot and the two
\* declarations.
C20_Witness ==
  /\ pc = "read" /\ success(BR) /\ input.kind = "expr" /\ input.cut = 0
  /\ Len(BR.Vars) = 3 /\ BR.Vars[1] = NullNode
  /\ BR.Vars[2] = VdX /\ BR.Vars[3] = VdY
  /\ BR.Stack # <<>> /\ arg(BR, 0) = Variable(NameX)
  /\ ScopeDepth(SubSeq(Atoms(input), 1, Len(hist.rEnds))) = 2

\* The first and the second 32-bit field behind the opcode of the atom the
\* reader stands before.
FirstField == Num(readUInt32(readPseudoOpcode(Reader).R).v)

SecondField == Num(readUInt32(readUInt32(readPseudoOpcode(Reader).R).R).v)

\* The atoms read so far, and of those the ones behind the last EnterCFG
\* that begin with one of the pseudo-opcodes ps.
AtomsRead == SubSeq(Atoms(input), 1, Len(hist.rEnds))

InThisCFG(ps) ==
  LET A == AtomsRead
      cfgs == { i \in 1..Len(A) : A[i][1] = writePseudoOpcode(PSOP_EnterCFG) }
  IN Cardinality({ i \in 1..Len(A) :
                     /\ \E p \in ps : A[i][1] = writePseudoOpcode(p)
                     /\ \E c \in cfgs : c < i
                     /\ \A c \in cfgs : c < i \/ c = i })

\* No entry of table T that is filled changes from this state to the next.
Stable(T, T2) ==
  /\ Len(T2) = Len(T)
  /\ \A i \in 1..Len(T) : T[i] # NullNode => T2[i] = T[i]

\* C21: EnterCFG replaces Blocks and Instrs by tables of the declared sizes
\* with no entry filled; within a CFG a filled entry never changes, the k-th
\* EnterBlock fills or finds Blocks[k], the k-th argument or instruction
\* fills Instrs[k], and a terminator that names a block not yet entered
\* makes the entry the later EnterBlock finds; a filled entry always is of
\* the CFG being read, so no entry of an earlier CFG is seen in a later one.
C21_CFGTables ==
  /\ [](/\ \A i \in 1..Len(BR.Blocks) :
              BR.Blocks[i] # NullNode => BR.Blocks[i].op = "Block" /\ BR.Blocks[i].id = i - 1
        /\ \A i \in 1..Len(BR.Instrs) :
              /\ BR.Instrs[i] # NullNode => BR.Instrs[i] = InstrRef(i - 1)
              /\ (BR.Builder.cfg /\ success(BR)) =>
                    (BR.Instrs[i] # NullNode <=> i <= BR.CurrentInstrID)
        /\ (pc = "read" /\ success(BR) /\ BR.Builder.cfg
              /\ input.kind = "expr" /\ input.cut = 0) =>
              /\ BR.CurrentInstrID = InThisCFG({PSOP_BBArgument, PSOP_BBInstruction})
              /\ \A i \in 1..InThisCFG({PSOP_EnterBlock}) : BR.Blocks[i] # NullNode)
  /\ [][AtReadAtom =>
          CASE NextPsop = PSOP_EnterCFG /\ ~BR.Builder.cfg ->
                 /\ success(BR')
                 /\ BR'.Blocks = [k \in 1..FirstField |-> NullNode]
                 /\ BR'.Instrs = [k \in 1..SecondField |-> NullNode]
                 /\ BR'.CurrentInstrID = 0
            [] NextPsop = PSOP_EnterBlock /\ success(BR') ->
                 /\ Stable(BR.Blocks, BR'.Blocks) /\ BR'.Instrs = BR.Instrs
                 /\ BR'.Blocks[FirstField + 1] # NullNode
                 /\ BR'.Builder.cur = FirstField
                 /\ (input.kind = "expr" /\ input.cut = 0) =>
                       FirstField = InThisCFG({PSOP_EnterBlock})
            [] NextPsop \in {PSOP_BBArgument, PSOP_BBInstruction} /\ success(BR') ->
                 /\ BR'.Blocks = BR.Blocks
                 /\ BR'.Instrs = [BR.Instrs EXCEPT ![BR.CurrentInstrID + 1] =
                                                      InstrRef(BR.CurrentInstrID)]
                 /\ BR'.CurrentInstrID = BR.CurrentInstrID + 1
            [] NextPsop = PSOP_Last + COP("Goto") /\ success(BR') ->
                 /\ Stable(BR.Blocks, BR'.Blocks) /\ BR'.Instrs = BR.Instrs
                 /\ BR'.Blocks[SecondField + 1] # NullNode
                 /\ arg(BR', 0).target = SecondField
            [] NextPsop = PSOP_Last + COP("Branch") /\ success(BR') ->
                 /\ Stable(BR.Blocks, BR'.Blocks) /\ BR'.Instrs = BR.Instrs
                 /\ BR'.Blocks[FirstField + 1] # NullNode
                 /\ BR'.Blocks[SecondField + 1] # NullNode
            [] OTHER -> BR'.Blocks = BR.Blocks /\ BR'.Instrs = BR.Instrs]_vars

\* In a CFG of three blocks the Goto that ends block 0 has been read
\* before EnterBlock 1: Blocks[1] is filled by it, Blocks[2] is not yet.
C21_Witness ==
  /\ pc = "read" /\ success(BR) /\ input.kind = "expr" /\ input.cut = 0
  /\ BR.Builder.cfg /\ BR.Builder.cur = 0
  /\ Len(BR.Blocks) = 3
  /\ BR.Blocks[1] # NullNode /\ BR.Blocks[2] # NullNode /\ BR.Blocks[3] = NullNode
  /\ BR.Stack # <<>> /\ arg(BR, 0).op = "Goto" /\ arg(BR, 0).target = 1
  /\ InThisCFG({PSOP_EnterBlock}) = 1

\* The operands the handler of the atom the reader stands before takes from
\* the stack, and of those the ones it drops.
Operands ==
  LET p == NextPsop
      name == IF p >= PSOP_Last /\ getOpcode(p) < Len(OpNames)
              THEN OpNames[getOpcode(p) + 1] ELSE "none"
  IN CASE p \in {PSOP_BBArgument, PSOP_BBInstruction, PSOP_EnterScope} -> 1
       [] p = PSOP_Annotation -> IF AtPrecondition THEN 2 ELSE 1
       [] name \in {"VarDecl", "UnaryOp", "Branch", "Return", "BasicBlock"} -> 1
       [] name \in {"Function", "BinaryOp"} -> 2
       [] name = "Goto" -> FirstField
       [] name = "SCFG" -> Len(BR.Blocks)
       [] OTHER -> 0

Dropped ==
  CASE NextPsop = PSOP_EnterScope -> 0
    [] NextPsop = PSOP_Annotation -> Operands - 1
    [] OTHER -> Operands

\* What drop must leave on the stack.
StackFloor == IF BR.Builder.cfg THEN BR.CFGStackSize ELSE 0

\* C22: an opcode that takes k operands while the stack holds fewer than k
\* (inside a CFG: fewer than k above CFGStackSize) makes success() false and
\* leaves the stack as it is; and the assertion of drop(n) holds only when
\* Stack.size() - n is not below CFGStackSize, wrap-around or not.
C22_UnderflowDetected ==
  [][AtReadAtom =>
       /\ Len(BR.Stack) - Operands < StackFloor =>
             ~success(BR') /\ BR'.Stack = BR.Stack
       /\ Len(BR'.Stack) >= StackFloor \/ ~BR'.Builder.cfg
       /\ (BR.Builder.cfg /\ Dropped > 0 /\ dropAssert(BR, Dropped)) =>
             Len(BR.Stack) - Dropped >= BR.CFGStackSize]_vars

\* The stream offset the byte reader stands at.
ReaderOffset(R) == R.SourcePos - (R.BufferLen - R.Pos)

\* The atoms of a sequence that begin with a real opcode.
NodeAtoms(A) == SelectSeq(A, LAMBDA a : \E Op \in 0..(Len(OpNames) - 1) : a[1] = writeOpcode(Op))

\* C23: the reader dispatches the opcode of every atom once, in stream
\* order: each turn of the loop starts where the atom of that turn was
\* written, finds the opcode written there, builds one node when it is a
\* real opcode and none otherwise, and stops where the atom ends, whether
\* the atom follows an annotation or not; at the end there have been as many
\* turns as atoms and as many nodes built as atoms of nodes.
C23_OpcodeDispatchOrder ==
  /\ [][AtWrittenAtom =>
          LET k == Len(hist.rEnds) + 1
              a == Atoms(input)[k]
          IN /\ k <= Len(hist.wEnds)
             /\ ReaderOffset(Reader) = IF k = 1 THEN 0 ELSE hist.wEnds[k - 1]
             /\ a[1] = writePseudoOpcode(NextPsop)
             /\ success(BR')
             /\ ReaderOffset(Reader') = hist.wEnds[k]
             /\ Len(hist'.rEnds) = k
             /\ BR'.made = BR.made + (IF NextPsop >= PSOP_Last THEN 1 ELSE 0)
             /\ IsAnnotationAtom(a) => Len(BR'.Stack) <= Len(BR.Stack)]_vars
  /\ []((pc = "done" /\ input.kind = "expr" /\ input.cut = 0) =>
          /\ Len(hist.rEnds) = Len(Atoms(input))
          /\ BR.made = Len(NodeAtoms(Atoms(input)))
          /\ ReaderOffset(Reader) = Sink.len)

\* The atom of a binary operation that stands right behind the annotation
\* of its second operand has been read: the node on top of the stack is the
\* binary operation, and the reader stands at the end of its atom.
C23_Witness ==
  /\ pc = "read" /\ success(BR) /\ input.kind = "expr" /\ input.cut = 0
  /\ Len(hist.rEnds) >= 2
  /\ IsAnnotationAtom(Atoms(input)[Len(hist.rEnds) - 1])
  /\ Atoms(input)[Len(hist.rEnds)][1] = writeOpcode(COP("BinaryOp"))
  /\ BR.Stack # <<>> /\ arg(BR, 0).op = "BinaryOp" /\ arg(BR, 0).anns = <<>>
  /\ ReaderOffset(Reader) = hist.wEnds[Len(hist.rEnds)]

(***************************************************************************)
(* Claims about the byte streams (SpecStream).                             *)
(***************************************************************************)
ProgFields == Flatten(input.atoms)

\* Field i has been read back with the value written and the reader stands
\* where the writer stood after writing it.
ReadBackExact(i) ==
  /\ hist.rFields[i].v = ProgFields[i].v
  /\ hist.rFields[i].off = hist.wFields[i]

\* C2: a 32-bit or 64-bit value written with writeUInt32_Vbr / writeUInt64_Vbr
\* is read back unchanged by readUInt32_Vbr / readUInt64_Vbr, and the read
\* consumes exactly the bytes the write produced.
C2_VbrRoundTrip ==
  \A i \in 1..Len(hist.rFields) :
    ProgFields[i].t \in {"UInt32", "UInt64"} => ReadBackExact(i)

\* The largest 64-bit value has been written after a flush and read back.
C2_Witness ==
  /\ pc = "sdone"
  /\ \E i \in 1..Len(hist.rFields) :
       /\ ProgFields[i].t = "UInt64" /\ ProgFields[i].v = 0..63
       /\ hist.rFields[i].v = 0..63
       /\ hist.wFields[i] > BufferSize

FixedWidth == {"Bool", "Bits32", "Bits64", "Int8", "Int16", "Int32", "Int64",
               "UInt8", "UInt16", "UInt32", "UInt64"}

C4_AtomAlignment ==
  /\ \A k \in 1..Len(hist.rEnds) : hist.rEnds[k] = hist.wEnds[k]
  /\ \A i \in 1..Len(hist.rFields) : hist.rFields[i].v = ProgFields[i].v

\* All atoms were read, one endAtom of the writer flushed and one of the
\* reader refilled.
C4_Witness ==
  /\ pc = "sdone"
  /\ Len(hist.rEnds) = Len(input.atoms)
  /\ \E k \in 1..Len(hist.wFlushed) : hist.wFlushed[k]
  /\ \E k \in 1..Len(hist.rRefilled) : hist.rRefilled[k]

(***************************************************************************)
(* Claims about the writer's sink and buffer (SpecStream).                 *)
(***************************************************************************)
\* The bytes of one field, as a writer with an empty buffer writes them.
FieldBytes(f) ==
  LET W == writeField(NewWriter, f) IN Slice(W.Buffer, 0, W.Pos)

\* The bytes of fields lo..hi of fs, written one behind the other: those of
\* the first half of the range, then those of the second half.
RECURSIVE EncodeRange(_, _, _)
EncodeRange(fs, lo, hi) ==
  IF lo > hi THEN EmptyArr
  ELSE IF lo = hi THEN FieldBytes(fs[lo])
  ELSE LET mid == (lo + hi) \div 2
       IN Concat(EncodeRange(fs, lo, mid), EncodeRange(fs, mid + 1, hi))

\* The bytes of a sequence of fields, written one behind the other.
EncodeFields(fs) == EncodeRange(fs, 1, Len(fs))

\* The bytes of the fields written so far.
WrittenSoFar == EncodeFields(SubSeq(ProgFields, 1, Len(hist.wFields)))

\* What the sink holds, followed by what the buffer holds.
StreamSoFar == Concat(Sink, Slice(Writer.Buffer, 0, Writer.Pos))

AtEndAtom == pc = "swrite" /\ todo # <<>> /\ Head(todo) = <<>>

AtFinalFlush == pc = "swrite" /\ todo = <<>>

\* C11: the sink changes only in endAtom and flush, by one writeData of the
\* buffered bytes appended behind what it holds; a writeData of endAtom ends
\* on the boundary of the atom just closed; and sink plus buffer always are
\* the bytes written so far, none twice, skipped or out of order.
C11_SinkOrdering ==
  /\ [](StreamSoFar = WrittenSoFar)
  /\ [][Sink' # Sink =>
          /\ AtEndAtom \/ AtFinalFlush
          /\ Sink' = Concat(Sink, Slice(Writer.Buffer, 0, Writer.Pos))
          /\ Writer'.Pos = 0
          /\ AtEndAtom => Sink'.len = hist'.wEnds[Len(hist'.wEnds)]]_vars

\* The sink has received two blocks: one from an endAtom, one from the
\* final flush, and holds every byte of the program.
C11_Witness ==
  /\ pc = "sopen"
  /\ \E k \in 1..Len(hist.wFlushed) : hist.wFlushed[k] /\ hist.wEnds[k] < Sink.len
  /\ Sink = WrittenSoFar
  /\ Len(hist.wFields) = Len(ProgFields)

\* The step writes one field of an unsigned type that is encoded in groups.
WritesVbr ==
  /\ pc = "swrite" /\ todo # <<>> /\ Head(todo) # <<>>
  /\ Head(Head(todo)).t \in {"UInt16", "UInt32", "UInt64"}

\* The number of bits of a word up to its highest set bit.
BitLength(V) == IF V = {} THEN 0 ELSE (CHOOSE b \in V : \A c \in V : c <= b) + 1

\* The continuation flag and the seven value bits of a byte of the stream.
FlagOf(b) == b % 2

GroupOf(b) == b \div 2

\* C15: the encoder emits the value in groups of 7 bits, least significant
\* group first, each behind a continuation flag that is 1 on all groups but
\* the last: one group for 0, ceil(L/7) groups for a value of bit length L,
\* at most 5 for a 32-bit and 10 for a 64-bit value, and no all-zero group at
\* the end of a chain of more than one; 0x80 is (1, 0x00), (0, 0x01).
C15_VbrEncoding ==
  [][WritesVbr =>
       LET f == Head(Head(todo))
           len == BitLength(f.v)
           n == Writer'.Pos - Writer.Pos
           b == [i \in 0..(n - 1) |-> Get(Writer'.Buffer, Writer.Pos + i)]
       IN /\ n = IF len = 0 THEN 1 ELSE (len + 6) \div 7
          /\ n <= IF f.t = "UInt64" THEN 10 ELSE 5
          /\ \A i \in 0..(n - 1) :
                /\ FlagOf(b[i]) = IF i < n - 1 THEN 1 ELSE 0
                /\ GroupOf(b[i]) = Val(Low(Shr(f.v, 7 * i), 7))
          /\ n > 1 => GroupOf(b[n - 1]) # 0
          /\ f.v = {7} => /\ n = 2
                          /\ FlagOf(b[0]) = 1 /\ GroupOf(b[0]) = 0
                          /\ FlagOf(b[1]) = 0 /\ GroupOf(b[1]) = 1
          /\ Slice(Writer'.Buffer, 0, Writer.Pos) = Slice(Writer.Buffer, 0, Writer.Pos)]_vars

\* The 64-bit value with all bits set has been written in ten groups, the
\* last of them the lone bit 63 behind a flag of 0.
C15_Witness ==
  /\ pc = "swrite" /\ input.atoms = << <<Fld("UInt64", 64, 0..63)>> >>
  /\ todo = << <<>> >> /\ Writer.Pos = 10
  /\ \A i \in 0..8 : Get(Writer.Buffer, i) = 255
  /\ Get(Writer.Buffer, 9) = 2

\* The step reads one unsigned value that is encoded in groups.
ReadsVbr ==
  /\ pc = "sread" /\ rtodo # <<>> /\ Head(rtodo) # <<>>
  /\ Head(Head(rtodo)).t \in {"UInt32", "UInt64", "Groups32", "Groups64"}

\* The groups the decoder may take for the field it is about to read.
MaxGroupsOf(f) == IF f.t \in {"UInt64", "Groups64"} THEN 10 ELSE 5

\* The length of the chain the reader stands before, as far as the first m
\* groups show it: the place of the first group with flag 0, or m + 1.
ChainLength(R, m) ==
  LET ends == { i \in 1..m : FlagOf(Get(R.Buffer, R.Pos + i - 1)) = 0 }
  IN IF ends = {} THEN m + 1 ELSE CHOOSE i \in ends : \A j \in ends : i <= j

\* C16: the decoder takes at most 5 groups for a 32-bit and 10 for a 64-bit
\* value: a chain whose 5th (10th) group still has its flag set makes it stop
\* after that group with Error set, a chain that ends within 5 (10) groups
\* is consumed whole and leaves Error as it was; once set, Error stays set.
C16_VbrGroupLimit ==
  [][/\ (ReadsVbr /\ rLength(Reader) >= MaxGroupsOf(Head(Head(rtodo)))) =>
          LET m == MaxGroupsOf(Head(Head(rtodo)))
              n == ChainLength(Reader, m)
          IN IF n > m
             THEN Reader'.Pos = Reader.Pos + m /\ Reader'.Error
             ELSE Reader'.Pos = Reader.Pos + n /\ Reader'.Error = Reader.Error
     /\ Reader.Error => Reader'.Error]_vars

\* Ten groups with the flag set were read as a 64-bit value: Error is set,
\* the byte behind the tenth group was left for the next field and read by
\* it, and Error is still set at the end of the stream.
C16_Witness ==
  /\ pc = "sdone" /\ Reader.Error
  /\ \E i \in 1..(Len(hist.rFields) - 1) :
       /\ ProgFields[i].t = "Groups64" /\ ProgFields[i].n = 10
       /\ hist.rFields[i].off = hist.wFields[i]
       /\ ProgFields[i + 1].t = "UInt8"
       /\ hist.rFields[i + 1].v = 0..7
       /\ hist.rFields[i + 1].off = hist.rFields[i].off + 1

\* The number of fields in the atoms closed so far.
RECURSIVE FieldsIn(_)
FieldsIn(atoms) == IF atoms = <<>> THEN 0 ELSE Len(Head(atoms)) + FieldsIn(Tail(atoms))

\* The writer stands at the start of an atom.
AtAtomStart ==
  /\ pc = "swrite"
  /\ Len(hist.wFields) = FieldsIn(SubSeq(input.atoms, 1, Len(hist.wEnds)))

\* C17: with atoms of at most MaxAtomSize bytes, each closed by endAtom, the
\* buffer has room for a whole atom whenever one starts, Pos stays within
\* 0..BufferSize and no byte is stored at or behind BufferSize; endAtom
\* flushes exactly when less than MaxAtomSize bytes of room are left, and
\* leaves writer and sink alone otherwise.
C17_WriterBufferInvariant ==
  /\ [](/\ Writer.Pos >= 0 /\ Writer.Pos <= BufferSize
        /\ \A i \in DOMAIN Writer.Buffer : i >= 0 /\ i < BufferSize
        /\ AtAtomStart => wLength(Writer) >= MaxAtomSize)
  /\ [][AtEndAtom =>
          IF BufferSize - Writer.Pos < MaxAtomSize
          THEN /\ Writer'.Pos = 0
               /\ Sink' = Concat(Sink, Slice(Writer.Buffer, 0, Writer.Pos))
               /\ Sink'.len = Sink.len + Writer.Pos
          ELSE Writer' = Writer /\ Sink' = Sink]_vars

\* The buffer is full to its last byte at the end of an atom, which began
\* with room for exactly MaxAtomSize bytes.
C17_Witness ==
  /\ AtEndAtom /\ Writer.Pos = BufferSize
  /\ AtomStart = Sink.len + BufferSize - MaxAtomSize
  /\ (BufferSize - 1) \in DOMAIN Writer.Buffer

AtReaderEndAtom == pc = "sread" /\ rtodo # <<>> /\ Head(rtodo) = <<>>

\* The bytes buffered and not yet read.
Unread(R) == Slice(R.Buffer, R.Pos, R.BufferLen - R.Pos)

\* C18: the reader's buffer is filled only by the constructor and by endAtom,
\* never between the fields of an atom; a refill keeps the unread bytes, in
\* order, ahead of the bytes it adds; after every endAtom at least
\* MaxAtomSize unread bytes are buffered or Eof is set; so the reads of an
\* atom of at most MaxAtomSize bytes of a complete stream stay within
\* BufferLen, and the unread bytes always are the next bytes of the source.
C18_ReaderBufferInvariant ==
  /\ [](/\ Reader.Pos >= 0 /\ Reader.Pos <= Reader.BufferLen
        /\ Reader.BufferLen <= BufferSize
        /\ Unread(Reader) = Slice(Reader.SourceBuffer.nz,
                                  Reader.SourcePos - (Reader.BufferLen - Reader.Pos),
                                  Reader.BufferLen - Reader.Pos))
  /\ [][/\ (Reader'.SourcePos # Reader.SourcePos \/ Reader'.BufferLen # Reader.BufferLen
              \/ Reader'.Buffer # Reader.Buffer \/ Reader'.Eof # Reader.Eof)
            => (pc = "sopen" \/ AtReaderEndAtom)
        /\ (pc = "sread" /\ ~AtReaderEndAtom) =>
              /\ Reader'.Pos >= Reader.Pos /\ Reader'.Pos <= Reader.BufferLen
              /\ (Reader'.Error /\ ~Reader.Error) =>
                    Head(Head(rtodo)).t \in {"Groups32", "Groups64"}
        /\ AtReaderEndAtom =>
              LET n == Reader.BufferLen - Reader.Pos IN
              /\ Reader'.BufferLen - Reader'.Pos >= MaxAtomSize \/ Reader'.Eof
              /\ Reader'.BufferLen - Reader'.Pos >= n
              /\ Slice(Reader'.Buffer, Reader'.Pos, n) = Unread(Reader)
              /\ (n >= MaxAtomSize \/ Reader.Eof) => Reader' = Reader]_vars

\* An endAtom in the middle of the stream has refilled the buffer: the
\* unread bytes were moved to its start, the rest of the source was read in
\* behind them, and a whole atom is buffered again.
C18_Witness ==
  /\ pc = "sread" /\ rtodo # <<>>
  /\ hist.rRefilled # <<>> /\ hist.rRefilled[Len(hist.rRefilled)]
  /\ Len(hist.rRefilled) < Len(input.atoms)
  /\ Reader.Pos = 0 /\ Reader.Eof
  /\ Reader.BufferLen = MaxAtomSize
  /\ Reader.SourcePos = Reader.SourceBuffer.len
  /\ Reader.SourcePos > BufferSize
  /\ Head(rtodo) # <<>>

====
